---- MODULE Spec2Model ----
(***************************************************************************)
(* Observation & Control Engine of the PAI OS agent (src/main.py,          *)
(* src/src/agent.py, src/src/core.py, src/src/server.py) as state          *)
(* machines:                                                               *)
(*   Spec       the window & focus state machine of one control loop       *)
(*              (OSAgent.reset, _capture_state, _update_focus_stack and    *)
(*              the reconciliation and dispatch of _run_executor_sprint)   *)
(*              against a desktop whose windows come and go at any time;   *)
(*   SpecFocus  the same machine with the dispatch restricted to commands  *)
(*              that leave the focus state alone;                          *)
(*   SpecLoop   the /chat and /stop handlers and the control-loop tasks    *)
(*              they start, interleaved at the tasks' await points;        *)
(*   SpecExec   execute_os_action and the executor's feedback for one      *)
(*              dispatched call, launch_app with its polls.                *)
(***************************************************************************)
EXTENDS Integers, Sequences, FiniteSets, TLC

(***************************************************************************)
(* Values                                                                  *)
(***************************************************************************)
\* Python's None where a window handle is expected (handles are >= 1).
None == 0

\* Python's None where an application name is expected.
NoApp == "<None>"

\* Number of window handles of the desktop under Spec, with every command.
MaxHandle == 2

\* Number of window handles of the desktop under SpecFocus, where the
\* decision function issues no launch_app, focus_window or close_window.
MaxFocusHandle == 3

\* Number of windows of the desktop under SpecExec.
MaxLaunchWindows == 3

\* The element ids of a capture run from 0 to MaxElement (core.py 246).
MaxElement == 1

ElementIds == 0..MaxElement

\* Python's None where an element id is expected (ids are >= 0).
NoId == -1

\* Titles of the windows of the modelled desktop.
AppTitles == {"A", "B", "C"}

\* The titles the popup detection skips (agent.py 691-696).
ignored_titles ==
    {"Default IME", "MSCTFIME UI", "NVIDIA GeForce Overlay", "Windows-Widgets",
     "Windows Widgets", "SearchHost", "StartMenuExperienceHost", "Cortana",
     "Program Manager", "Task View", "PopupHost"}

\* str.strip() on the titles and names of the model.
Strip(t) ==
    CASE t \in {"", " "} -> ""
      [] t = " calc " -> "calc"
      [] OTHER -> t

\* str.lower() on the titles and names of the model.
Lower(s) ==
    CASE s = "A" -> "a"
      [] s = "B" -> "b"
      [] s = "C" -> "c"
      [] s = " Calc " -> " calc "
      [] s = "Default IME" -> "default ime"
      [] s = "Oracle VM VirtualBox Manager" -> "oracle vm virtualbox manager"
      [] s = "Notepad" -> "notepad"
      [] s = "VM" -> "vm"
      [] s = "Ubuntu VM" -> "ubuntu vm"
      [] s = "VM Tools" -> "vm tools"
      [] s = "VMware" -> "vmware"
      [] OTHER -> s

\* A window as get_window_list reports it: title and size of its rectangle.
Window(title, width, height) == [title |-> title, width |-> width, height |-> height]

\* The desktops of the model: the window behind each handle, in the order of
\* the handles.  Every further handle is a window of the last kind.
Desktops ==
    <<  <<Window("A", 200, 300), Window("B", 200, 300), Window("C", 200, 300)>>,
        <<Window("A", 200, 300), Window("A", 200, 300), Window("B", 200, 300)>>,
        <<Window("Default IME", 200, 300), Window(" ", 200, 300), Window("A", 21, 21)>>,
        <<Window("A", 20, 300), Window("B", 300, 20), Window("C", 200, 300)>>  >>

\* The desktop of SpecExec: the windows behind the handles 10, 11, 12, ...
\* Every further handle is a window of the last kind.
LaunchDesktop ==
    (10 :> Window("Oracle VM VirtualBox Manager", 400, 300))
      @@ (11 :> Window("tool", 50, 300))
      @@ (12 :> Window("calculator", 200, 300))

LaunchHandles == 10..(9 + MaxLaunchWindows)

\* The names the decision function passes to launch_app and focus_window.
LaunchNames == {"A"}

\* The names it passes to launch_app under SpecExec.
LaunchInputs == {"", " ", " Calc ", "snip", "zzz"}

FocusNames == {"a", "b", "Z"}

\* Keys of known_windows: window titles and launched application names.
AppNames ==
    AppTitles \cup LaunchNames \cup {LaunchDesktop[h].title : h \in DOMAIN LaunchDesktop}

Range(s) == {s[i] : i \in 1..Len(s)}

\* All orders in which the members of S can be enumerated.
Perms(S) ==
    {p \in [1..Cardinality(S) -> S] : \A i, j \in 1..Cardinality(S) : p[i] = p[j] => i = j}

Max(S) == CHOOSE x \in S : \A y \in S : y <= x

Min(S) == CHOOSE x \in S : \A y \in S : x <= y

VARIABLES
    desktop,          \* which of the Desktops the agent runs on (0: LaunchDesktop)
    handles,          \* the window handles of that desktop
    focus_stack,      \* OSAgent.focus_stack: sequence of <<app_name, handle>>
    known_windows,    \* OSAgent.known_windows: app name -> handle (None: no key)
    active_app_name,  \* OSAgent.active_app_name
    focus_handle,     \* OSAgent.focus_handle
    window_snapshot,  \* _run_executor_sprint: handles seen in the previous cycle
    current_win_list, \* _run_executor_sprint: the window list of this cycle
    handles_before,   \* execute_os_action(launch_app): handles before the launch
    launch_name,      \* app_req_name of the launch_app being dispatched
    pc,               \* position of the control loop
    out,              \* what the last step of the control loop did
    is_running,       \* OSAgent.is_running
    flag_writer,      \* who assigned is_running last
    task_pc,          \* per task of run_autonomous_loop: the await it is suspended at
    cmd_count,        \* per task: commands of the current batch executed so far
    reply,            \* the status the last HTTP handler returned
    all_elements,     \* the elements of the capture: element id -> kind of element
    call,             \* the function call being dispatched
    attempts,         \* launch_app: polls made (the loop variable i + 1)
    windows_after,    \* launch_app: the window list of the last poll
    result,           \* what execute_os_action returned
    last_tool_output, \* the feedback for the next decision cycle
    effect,           \* what the command did to the desktop
    slept,            \* seconds the wait command suspended the batch for
    exec_pc,          \* position of the dispatch of the call
    cap_pc,           \* position of _capture_state
    cap_log,          \* what the capture under way did: requests sent, answers got
    captured,         \* what _capture_state returned: image, elements, offset
    nested_in,        \* the elements passed to _filter_nested_elements
    nested_out,       \* the elements it returned
    nested_pc,        \* whether it has run
    density_in,       \* the scan observe_os_state got: raw elements, focus handle
    run_ocr,          \* observe_os_state: run_ocr
    density_pc,       \* whether the density heuristic has run
    ipc_live,         \* whether window 10 exists
    ipc_call,         \* the IPC call of the agent under way, or the last one
    ipc_done,         \* the IPC calls that returned, in their order
    ipc_conns,        \* per connection the server accepted: what it did with it
    ipc_srv,          \* the Automation Server: position, request, time left
    obj_pc,           \* position of run_autonomous_loop
    current_phase,    \* run_autonomous_loop: current_phase
    consults,         \* calls of _consult_manager of the objective
    step_safety,      \* _run_executor_sprint: step_safety
    sprint_active,    \* _run_executor_sprint: sprint_active
    sprint_errors,    \* whether every cycle of the sprint so far raised
    obj_events,       \* the events of the objective: error, success, disconnected
    obj_fatal,        \* the fatal conditions the objective met
    obj_exit,         \* how the loop of the objective ended
    api_pc,           \* position of send_chat_message
    max_retries,      \* send_chat_message: max_retries
    attempt,          \* send_chat_message: attempt
    api_sent,         \* the send_message calls of the current call
    api_errors,       \* the messages of the exceptions caught, in order
    api_waits,        \* the durations slept, in order
    api_result,       \* what send_chat_message returned
    step_count,       \* OSAgent.step_count
    current_sprint_plan, \* OSAgent.current_sprint_plan
    type_pc,          \* position of the type branch of execute_os_action
    type_trace,       \* what the type branch did, in order
    fuse_in,          \* the scan, its scope and the texts given to the fusion
    fuse_out,         \* the elements the fusion returned
    fuse_pc           \* whether it has run

focusVars ==
    <<desktop, handles, focus_stack, known_windows, active_app_name, focus_handle,
      window_snapshot, current_win_list, handles_before, launch_name, pc, out>>

loopVars == <<is_running, flag_writer, task_pc, cmd_count, reply>>

execVars ==
    <<all_elements, call, attempts, windows_after, result, last_tool_output, effect, slept,
      exec_pc>>

captureVars == <<cap_pc, cap_log, captured>>

filterVars == <<nested_in, nested_out, nested_pc>>

densityVars == <<density_in, run_ocr, density_pc>>

\* The variables of the specifications of single functions.
functionVars == <<filterVars, densityVars>>

perceptionVars == <<captureVars, functionVars>>

ipcVars == <<ipc_live, ipc_call, ipc_done, ipc_conns, ipc_srv>>

objVars ==
    <<obj_pc, current_phase, consults, step_safety, sprint_active, sprint_errors, obj_events,
      obj_fatal, obj_exit>>

apiVars == <<api_pc, max_retries, attempt, api_sent, api_errors, api_waits, api_result>>

planVars == <<step_count, current_sprint_plan>>

typeVars == <<type_pc, type_trace>>

\* The variables of the services around the control loop.
fuseVars == <<fuse_in, fuse_out, fuse_pc>>

serviceVars == <<ipcVars, objVars, apiVars, planVars, typeVars, fuseVars>>

\* What the actions of the IPC channel leave alone, and those of the
\* objective (which assign is_running).
ipcRest ==
    <<focusVars, loopVars, execVars, perceptionVars, objVars, apiVars, planVars, typeVars,
      fuseVars>>

objRest ==
    <<focusVars, execVars, perceptionVars, ipcVars, apiVars, typeVars, fuseVars, flag_writer,
      task_pc, cmd_count, reply>>

\* What the focus state machine leaves alone where it assigns the plan.
planRest == <<ipcVars, objVars, apiVars, typeVars, fuseVars>>

\* What send_chat_message leaves alone.
apiRest ==
    <<focusVars, loopVars, execVars, perceptionVars, ipcVars, objVars, planVars, typeVars,
      fuseVars>>

\* What the type branch of execute_os_action leaves alone.
typeRest ==
    <<focusVars, loopVars, perceptionVars, ipcVars, objVars, apiVars, planVars, fuseVars,
      attempts, windows_after, result, last_tool_output, effect, slept, exec_pc>>

vars == <<focusVars, loopVars, execVars, perceptionVars, serviceVars>>

(***************************************************************************)
(* The desktop as the Automation Server reports it.  Windows appear, hide, *)
(* change and die at any time between two requests, so every answer below  *)
(* can follow every other.                                                 *)
(***************************************************************************)
\* The window behind handle h.
WindowOf(h) ==
    LET d == IF desktop = 0 THEN LaunchDesktop ELSE Desktops[desktop] IN
    IF h \in DOMAIN d THEN d[h] ELSE d[Max(DOMAIN d)]

\* The titles get_all_visible_windows leaves out.
server_hidden_titles == {"Program Manager", "Settings", "NVIDIA GeForce Overlay"}

\* get_all_visible_windows lists h when it is visible: titled and not
\* filtered by title.
Listable(h) == WindowOf(h).title # "" /\ WindowOf(h).title \notin server_hidden_titles

\* The answers get_all_windows_from_server can give: the visible windows in
\* the server's enumeration order; [] also when the request fails.
WindowListAnswers ==
    UNION {Perms(S) : S \in SUBSET {h \in handles : Listable(h)}}

\* check_ipc_handle_exists: win32gui.IsWindow(h) as the server answers it,
\* False also when the request fails or times out.
CheckHandleAnswers == BOOLEAN

(***************************************************************************)
(* Focus state: pure parts                                                 *)
(***************************************************************************)
\* The focus-relevant fields of the agent as one record.
FocusState(stack, known, name, handle) ==
    [stack |-> stack, known |-> known, name |-> name, handle |-> handle]

\* [x for x in self.focus_stack if x[1] != handle]
RECURSIVE WithoutHandle(_, _)
WithoutHandle(stack, handle) ==
    IF stack = <<>> THEN <<>>
    ELSE IF Head(stack)[2] = handle THEN WithoutHandle(Tail(stack), handle)
    ELSE <<Head(stack)>> \o WithoutHandle(Tail(stack), handle)

\* A variant of _update_focus_stack that keeps the earlier entry of the
\* handle: C3_NoDuplicateHandles tells it from the code.
UpdateFocusStack_KeepEarlier(fs, app_name, handle) ==
    FocusState(Append(fs.stack, <<app_name, handle>>),
               [fs.known EXCEPT ![app_name] = handle],
               app_name, handle)

\* OSAgent._update_focus_stack without its bring_window_to_front call.
UpdateFocusStack(fs, app_name, handle) ==
    FocusState(Append(WithoutHandle(fs.stack, handle), <<app_name, handle>>),
               [fs.known EXCEPT ![app_name] = handle],
               app_name, handle)

\* No two entries of the stack have the same handle.
NoDuplicateHandles(stack) ==
    \A i, j \in 1..Len(stack) : stack[i][2] = stack[j][2] => i = j

\* A variant of the popup test that lets windows 20 wide or high through:
\* C6_PopupDetection tells it from the code.
PopupQualifies_AtLeast20(w) ==
    /\ w.title \notin ignored_titles
    /\ Strip(w.title) # ""
    /\ w.width >= 20
    /\ w.height >= 20

\* The popup test of one window of the list that is not in the snapshot.
PopupQualifies(w) ==
    /\ w.title \notin ignored_titles
    /\ Strip(w.title) # ""
    /\ w.width > 20
    /\ w.height > 20

\* The scan of the window list: the position of the window the popup
\* detection focuses, 0 when it focuses none.
RECURSIVE PopupScan(_, _, _)
PopupScan(lst, new_handles, i) ==
    IF i > Len(lst) THEN 0
    ELSE IF lst[i] \in new_handles /\ PopupQualifies(WindowOf(lst[i])) THEN i
    ELSE PopupScan(lst, new_handles, i + 1)

\* A variant of the recovery that restores the entry below the popped one
\* whether or not its window is live: C5_StaleRecovery tells it from the code.
RecoveryLoop_NoLiveTest(stack, live, popped) ==
    IF Len(stack) <= 1
    THEN [stack |-> <<>>, found |-> <<>>, popped |-> popped + Len(stack)]
    ELSE [stack |-> SubSeq(stack, 1, Len(stack) - 1), found |-> stack[Len(stack) - 1],
          popped |-> popped + 1]

\* The while loop of the stale-handle recovery: pops, then looks at the new
\* top.  Gives the stack left, the entry restored (<<>> when none) and the
\* number of entries popped.
RECURSIVE RecoveryLoop(_, _, _)
RecoveryLoop(stack, live, popped) ==
    IF stack = <<>> THEN [stack |-> <<>>, found |-> <<>>, popped |-> popped]
    ELSE LET rest == SubSeq(stack, 1, Len(stack) - 1) IN
         IF rest = <<>> THEN [stack |-> <<>>, found |-> <<>>, popped |-> popped + 1]
         ELSE IF rest[Len(rest)][2] \in live
              THEN [stack |-> rest, found |-> rest[Len(rest)], popped |-> popped + 1]
              ELSE RecoveryLoop(rest, live, popped + 1)

\* The handle validation at the top of _capture_state, for the answer
\* `exists` of check_handle.
CaptureValidate(fs, exists) ==
    IF fs.name # NoApp
    THEN IF fs.known[fs.name] # None
         THEN IF exists
              THEN FocusState(fs.stack, fs.known, fs.name, fs.known[fs.name])
              ELSE FocusState(fs.stack, [fs.known EXCEPT ![fs.name] = None], NoApp, None)
         ELSE FocusState(fs.stack, fs.known, NoApp, None)
    ELSE FocusState(fs.stack, fs.known, NoApp, None)

\* OSAgent.reset, for the answer `exists` of check_handle.
\* A variant of reset() that forgets the name of an application whose
\* window is gone: C29_ResetFrame tells it from the code.
ResetFocus_Forget(fs, exists) ==
    IF fs.name # NoApp /\ fs.known[fs.name] # None /\ exists
    THEN FocusState(fs.stack, fs.known, fs.name, fs.known[fs.name])
    ELSE FocusState(fs.stack, fs.known, NoApp, None)

ResetFocus(fs, exists) ==
    IF fs.name # NoApp /\ fs.known[fs.name] # None
    THEN FocusState(fs.stack, fs.known, fs.name,
                    IF exists THEN fs.known[fs.name] ELSE None)
    ELSE FocusState(fs.stack, fs.known, fs.name, None)

CurrentFocus == FocusState(focus_stack, known_windows, active_app_name, focus_handle)

\* What reset() learnt from check_ipc_handle_exists: "" when it did not ask.
ProbeOf(fs, exists) ==
    IF fs.name # NoApp /\ fs.known[fs.name] # None
    THEN IF exists THEN "exists" ELSE "missing"
    ELSE ""

\* plan_data.get("sprint_steps", []) (agent.py 524): the steps of a sprint
\* the planner asks for.
SprintPlans == {<<"step">>}

SetFocus(fs) ==
    /\ focus_stack' = fs.stack
    /\ known_windows' = fs.known
    /\ active_app_name' = fs.name
    /\ focus_handle' = fs.handle

\* What a step of the control loop reports: the command dispatched ("" when
\* the step is no dispatch), the handle the popup detection focused, whether
\* the stale-handle recovery ran and how many entries it popped, the handles
\* passed to bring_window_to_front, the handle of the close_window request
\* sent and the class of the tool result; further the probe of reset(),
\* whether the step's IPC request failed, the entries of listed windows
\* that the recovery popped, and, for a capture, the handle that the
\* recovery of the same cycle restored.
Out(cmd, popup, stale, popped, fg, close, res) ==
    [cmd |-> cmd, popup |-> popup, stale |-> stale, popped |-> popped, fg |-> fg,
     close |-> close, res |-> res, probe |-> "", failed |-> FALSE, lost |-> {},
     restored |-> None]

Quiet == Out("", None, FALSE, 0, <<>>, None, "")

\* The report of a dispatched command.
Dispatched(cmd, fg, close, res) == Out(cmd, None, FALSE, 0, fg, close, res)

(***************************************************************************)
(* launch_app: the scan of one poll (core.py 862-893)                      *)
(***************************************************************************)
\* Python's `a in b` on the lower-cased strings of the model: the pairs
\* <<a, b>> with a a proper substring of b.
ProperSubstrings ==
    {<<"a", "default ime">>, <<"a", "calculator">>, <<"a", "oracle vm virtualbox manager">>,
     <<"calc", "calculator">>,
     <<"oracle", "oracle vm virtualbox manager">>,
     <<"virtualbox", "oracle vm virtualbox manager">>,
     <<"vm", "oracle vm virtualbox manager">>,
     <<" vm ", "oracle vm virtualbox manager">>,
     <<"vm", "ubuntu vm">>, <<"vm", "vm tools">>, <<"vm", "vmware">>,
     <<"a", "notepad">>, <<"a", "vmware">>,
     <<"snip", "snipping tool">>}

InStr(a, b) == a = b \/ <<a, b>> \in ProperSubstrings

\* b.startswith(a) and b.endswith(a) on the titles of the model.
StartsWith(b, a) == a = b \/ <<a, b>> \in {<<"vm ", "vm tools">>, <<"vm", "vmware">>}

EndsWith(b, a) == a = b \/ <<a, b>> \in {<<" vm", "ubuntu vm">>}

\* The score of a new window for the launched name.
LaunchScore(w, app_name_input) ==
    (IF InStr(app_name_input, Lower(w.title)) THEN 10 ELSE 0)
      + (IF InStr("oracle", Lower(w.title)) \/ InStr("virtualbox", Lower(w.title))
         THEN 5 ELSE 0)
      + (IF InStr("vm", Lower(w.title)) THEN 2 ELSE 0)

\* A variant of the size filter that lets windows 50 wide or high through:
\* C9_LaunchResult tells it from the code.
LaunchQualifies_AtLeast50(w) == w.width >= 50 /\ w.height >= 50

\* The size filter of a new window.
LaunchQualifies(w) == w.width > 50 /\ w.height > 50

\* valid_candidates of one poll, as positions of the window list.
ValidCandidates(lst, before) ==
    {i \in 1..Len(lst) : lst[i] \notin before /\ LaunchQualifies(WindowOf(lst[i]))}

\* valid_candidates.sort(key=score, reverse=True)[0]: the highest score, the
\* earliest of the list among equals (the sort is stable).
BestMatch(lst, before, app_name_input) ==
    LET c == ValidCandidates(lst, before) IN
    lst[CHOOSE i \in c :
          \A j \in c :
             \/ LaunchScore(WindowOf(lst[i]), app_name_input)
                  > LaunchScore(WindowOf(lst[j]), app_name_input)
             \/ /\ LaunchScore(WindowOf(lst[i]), app_name_input)
                     = LaunchScore(WindowOf(lst[j]), app_name_input)
                /\ i <= j]

(***************************************************************************)
(* The control loop on the focus state                                     *)
(***************************************************************************)
\* Whether the stale-handle recovery runs in a cycle.
StaleNeeded(popup_found, handle, current_handles_set) ==
    ~popup_found /\ handle # None /\ handle \notin current_handles_set

\* The reconciliation of one cycle (agent.py 674-732) on the window list
\* lst with the snapshot of the previous cycle.
ReconcileFocus(fs, lst, snapshot) ==
    LET current_handles_set == Range(lst)
        new_handles == current_handles_set \ snapshot
        p == IF new_handles # {} THEN PopupScan(lst, new_handles, 1) ELSE 0
        popup_found == p # 0
        fs1 == IF popup_found
               THEN UpdateFocusStack(fs, WindowOf(lst[p]).title, lst[p])
               ELSE fs
        stale == StaleNeeded(popup_found, fs1.handle, current_handles_set)
        rec == RecoveryLoop(fs1.stack, current_handles_set, 0)
        fs2 == IF ~stale THEN fs1
               ELSE IF rec.found # <<>>
                    THEN FocusState(rec.stack, fs1.known, rec.found[1], rec.found[2])
                    ELSE FocusState(rec.stack, fs1.known, NoApp, None)
        \* the entries the recovery popped although their windows are listed
        lost == IF stale
                THEN {fs1.stack[k] : k \in {j \in (Len(rec.stack) + 1)..Len(fs1.stack) :
                                                fs1.stack[j][2] \in current_handles_set}}
                ELSE {}
    IN [fs |-> fs2,
        out |-> [Out("",
                     IF popup_found THEN lst[p] ELSE None,
                     stale,
                     IF stale THEN rec.popped ELSE 0,
                     (IF popup_found THEN <<lst[p]>> ELSE <<>>)
                        \o (IF stale /\ rec.found # <<>> THEN <<rec.found[2]>> ELSE <<>>),
                     None, "") EXCEPT !.lost = lost]]

\* run_autonomous_loop 475-477: a new objective starts with reset().
StartObjective ==
    /\ pc = "idle"
    /\ \E exists \in (IF active_app_name # NoApp /\ known_windows[active_app_name] # None
                      THEN CheckHandleAnswers
                      ELSE {FALSE}) :
          /\ SetFocus(ResetFocus(CurrentFocus, exists))
          /\ out' = [Quiet EXCEPT !.probe = ProbeOf(CurrentFocus, exists)]
    /\ step_count' = 0
    /\ current_sprint_plan' = <<>>
    /\ pc' = "phase"
    /\ UNCHANGED <<loopVars, execVars, perceptionVars, planRest, desktop, handles, window_snapshot, current_win_list, handles_before, launch_name>>

\* The while condition of run_autonomous_loop fails (abort or phase limit),
\* or the planner answers COMPLETED or FAILED: the objective ends.
ObjectiveEnd ==
    /\ pc \in {"phase", "consult"}
    /\ pc' = "idle"
    /\ out' = Quiet
    /\ UNCHANGED <<loopVars, execVars, perceptionVars, serviceVars, desktop, handles, focus_stack, known_windows, active_app_name, focus_handle,
                   window_snapshot, current_win_list, handles_before, launch_name>>

\* _capture_state of a phase (agent.py 487) or of a sprint cycle (747).
CaptureStateOn(exists, failed) ==
    /\ pc \in {"phase", "capture"}
    /\ SetFocus(CaptureValidate(CurrentFocus, exists))
    /\ pc' = IF pc = "phase" THEN "consult" ELSE "dispatch"
    /\ current_win_list' = <<>>
    /\ out' = [Quiet EXCEPT !.failed = failed,
                            !.restored = IF out.stale /\ out.fg # <<>> THEN out.fg[1] ELSE None]
    /\ UNCHANGED <<loopVars, execVars, perceptionVars, serviceVars, desktop, handles, window_snapshot, handles_before, launch_name>>

\* The capture on any answer check_ipc_handle_exists can give.
CaptureState ==
    \E exists \in (IF active_app_name # NoApp /\ known_windows[active_app_name] # None
                   THEN CheckHandleAnswers
                   ELSE {FALSE}) :
       CaptureStateOn(exists, FALSE)

\* The same capture when the check_handle request for the remembered
\* window, which is there, times out or fails in transport:
\* check_ipc_handle_exists returns False (core.py 1121-1129).
CaptureStateFailed ==
    /\ active_app_name # NoApp
    /\ known_windows[active_app_name] # None
    /\ CaptureStateOn(FALSE, TRUE)

\* The planner asks for the coder: the loop continues with the next phase.
ConsultCoder ==
    /\ pc = "consult"
    /\ pc' = "phase"
    /\ out' = Quiet
    /\ UNCHANGED <<loopVars, execVars, perceptionVars, serviceVars, desktop, handles, focus_stack, known_windows, active_app_name, focus_handle,
                   window_snapshot, current_win_list, handles_before, launch_name>>

\* The planner answers CONTINUE: the plan is kept (agent.py 524),
\* _run_executor_sprint starts and takes its first window snapshot (agent.py
\* 661-666).
SprintStart ==
    /\ pc = "consult"
    /\ \E lst \in WindowListAnswers : window_snapshot' = Range(lst)
    /\ \E plan \in SprintPlans : current_sprint_plan' = plan
    /\ pc' = "cycle"
    /\ out' = Quiet
    /\ UNCHANGED <<loopVars, execVars, perceptionVars, planRest, step_count, desktop, handles, focus_stack, known_windows, active_app_name, focus_handle,
                   current_win_list, handles_before, launch_name>>

\* The sprint's while condition fails, or the capture of a cycle breaks out.
SprintEnd ==
    /\ pc \in {"cycle", "dispatch"}
    /\ pc' = "phase"
    /\ window_snapshot' = {}
    /\ out' = Quiet
    /\ UNCHANGED <<loopVars, execVars, perceptionVars, serviceVars, desktop, handles, focus_stack, known_windows, active_app_name, focus_handle,
                   current_win_list, handles_before, launch_name>>

\* Popup detection and stale-handle recovery at the top of a cycle for the
\* window list lst; failed tells that the request for it failed.
ReconcileOn(lst, failed) ==
    /\ pc = "cycle"
    /\ LET r == ReconcileFocus(CurrentFocus, lst, window_snapshot) IN
       /\ SetFocus(r.fs)
       /\ out' = [r.out EXCEPT !.failed = failed]
    /\ window_snapshot' = Range(lst)
    /\ current_win_list' = lst
    /\ pc' = "capture"
    /\ UNCHANGED <<loopVars, execVars, perceptionVars, serviceVars, desktop, handles, handles_before, launch_name>>

\* The cycle on any answer get_all_windows_from_server can give.
Reconcile == pc = "cycle" /\ \E lst \in WindowListAnswers : ReconcileOn(lst, FALSE)

\* The same cycle when the get_window_list request times out or fails in
\* transport with every window still there: get_all_windows_from_server
\* returns [] (core.py 1082-1092).
ReconcileFailed == ReconcileOn(<<>>, TRUE)

\* The executor's launch_app branch up to the start of the process
\* (agent.py 862-866, core.py 806-856): the handles before the launch are
\* taken from a window list; Popen may fail, which ends the command.
DispatchLaunchBegin ==
    /\ pc = "dispatch"
    /\ \E name \in LaunchNames, lst \in WindowListAnswers, started \in BOOLEAN :
          /\ launch_name' = IF started THEN name ELSE NoApp
          /\ handles_before' = IF started THEN Range(lst) ELSE {}
          /\ pc' = IF started THEN "launching" ELSE "dispatch"
          /\ out' = IF started THEN Quiet ELSE Dispatched("launch_app", <<>>, None, "error")
    /\ UNCHANGED <<loopVars, execVars, perceptionVars, serviceVars, desktop, handles, focus_stack, known_windows, active_app_name, focus_handle,
                   window_snapshot, current_win_list>>

\* The executor's bookkeeping for the result of launch_app (agent.py 868-875).
RegisterLaunch(fs, app_req_name, new_h) ==
    IF new_h # None
    THEN FocusState(fs.stack, [fs.known EXCEPT ![app_req_name] = new_h],
                    app_req_name, fs.handle)
    ELSE fs

\* A poll of the launch that ends it: either it finds a valid candidate,
\* which is foregrounded and registered, or it is the last one and finds
\* none.  (The polls before it found nothing and changed nothing; LaunchPoll
\* counts them under SpecExec.)
DispatchLaunchEnd ==
    /\ pc = "launching"
    /\ \E lst \in WindowListAnswers :
          LET found == ValidCandidates(lst, handles_before) # {}
              new_h == IF found
                       THEN BestMatch(lst, handles_before, Lower(launch_name))
                       ELSE None
          IN /\ SetFocus(RegisterLaunch(CurrentFocus, launch_name, new_h))
             /\ out' = Dispatched("launch_app", IF found THEN <<new_h>> ELSE <<>>, None,
                                  IF found THEN "success" ELSE "warning")
    /\ pc' = "dispatch"
    /\ launch_name' = NoApp
    /\ handles_before' = {}
    /\ UNCHANGED <<loopVars, execVars, perceptionVars, serviceVars, desktop, handles, window_snapshot, current_win_list>>

\* The results execute_os_action can get for close_window (core.py 913-926,
\* server.py 301-307): the server's success, the server's or the
\* transport's error, and none at all when no answer comes in 2 s.
CloseAnswers == {"success", "error", "none"}

\* The executor's bookkeeping after close_window got a result (agent.py 890-896).
ForgetActive(fs) ==
    IF fs.name # NoApp
    THEN FocusState(WithoutHandle(fs.stack, fs.handle),
                    [fs.known EXCEPT ![fs.name] = None], NoApp, None)
    ELSE fs

\* The executor's close_window branch (agent.py 880-898).  Without a result
\* close_res.get raises, which ends the batch (agent.py 955-959).
DispatchClose ==
    /\ pc = "dispatch"
    /\ IF focus_handle # None
       THEN \E ans \in CloseAnswers :
               /\ SetFocus(IF ans = "none" THEN CurrentFocus ELSE ForgetActive(CurrentFocus))
               /\ out' = Dispatched("close_window", <<>>, focus_handle,
                                    IF ans = "none" THEN "raised" ELSE ans)
               /\ pc' = IF ans = "none" THEN "cycle" ELSE "dispatch"
       ELSE /\ SetFocus(CurrentFocus)
            /\ out' = Dispatched("close_window", <<>>, None, "error")
            /\ pc' = "dispatch"
    /\ UNCHANGED <<loopVars, execVars, perceptionVars, serviceVars, desktop, handles, window_snapshot, current_win_list, handles_before, launch_name>>

\* next((k for k in self.known_windows if k.lower() == target_name.lower()), None)
\* (the names of the model give at most one such key).
FocusMatch(known, target_name) ==
    LET ks == {k \in AppNames : known[k] # None /\ Lower(k) = Lower(target_name)} IN
    IF ks = {} THEN NoApp ELSE CHOOSE k \in ks : TRUE

\* The executor's focus_window branch (agent.py 900-911).
DispatchFocus ==
    /\ pc = "dispatch"
    /\ \E target_name \in FocusNames :
          LET match == FocusMatch(known_windows, target_name) IN
          IF match # NoApp
          THEN /\ active_app_name' = match
               /\ out' = Dispatched("focus_window", <<known_windows[match]>>, None, "success")
          ELSE /\ active_app_name' = active_app_name
               /\ out' = Dispatched("focus_window", <<>>, None, "error")
    /\ pc' = "dispatch"
    /\ UNCHANGED <<loopVars, execVars, perceptionVars, serviceVars, desktop, handles, focus_stack, known_windows, focus_handle, window_snapshot,
                   current_win_list, handles_before, launch_name>>

\* Any other tool (click, type, scroll, execute_cmd, wait, refresh_screen):
\* the focus state is not touched.
DispatchOther ==
    /\ pc = "dispatch"
    /\ out' = Dispatched("other", <<>>, None, "executed")
    /\ UNCHANGED <<loopVars, execVars, perceptionVars, serviceVars, desktop, handles, focus_stack, known_windows, active_app_name, focus_handle,
                   window_snapshot, current_win_list, handles_before, launch_name, pc>>

\* The batch is through (or empty): the next cycle begins.
BatchEnd ==
    /\ pc = "dispatch"
    /\ pc' = "cycle"
    /\ out' = Quiet
    /\ UNCHANGED <<loopVars, execVars, perceptionVars, serviceVars, desktop, handles, focus_stack, known_windows, active_app_name, focus_handle,
                   window_snapshot, current_win_list, handles_before, launch_name>>

\* The tasks the event loop can hold at a time (a finished task's slot is
\* free again).
MaxTasks == 2

Tasks == 1..MaxTasks

\* The most commands the decision function returns in one batch.
MaxBatch == 2

\* No command is being dispatched.  (existed: the windows that were open
\* when launch_app asked for the window list, whatever the answer was.)
NoCall ==
    [tool |-> "", element_id |-> NoId, app_name |-> "", target_cmd |-> "", seconds |-> <<>>,
     existed |-> {}]

\* A result of execute_os_action: the status of the dict returned ("none"
\* when it returned None, "raised" when it raised) and its handle.
Result(status, handle) == [status |-> status, handle |-> handle]

\* An image: a screen grab (or a crop of one) or the blank placeholder.
Image(kind, width, height) == [kind |-> kind, width |-> width, height |-> height]

NoImage == Image("none", 0, 0)

\* What observe_os_state and _capture_state return.
Snapshot(img, elements, offset) == [img |-> img, elements |-> elements, offset |-> offset]

\* Nothing was captured yet.
NoCapture == Snapshot(NoImage, <<>>, <<0, 0>>)

\* Image.new('RGB', (800, 600)), [], (0, 0).
Placeholder == Snapshot(Image("blank", 800, 600), <<>>, <<0, 0>>)

NoAnswer == [kind |-> "none", status |-> "", message |-> "", data |-> <<>>]

\* The log of a capture: the root handles of the analyze requests it sent
\* (None for a full-desktop scan), the answer to the first of them, the
\* exception observe_os_state raised ("" for none), and the rectangle the
\* capture assigned to self.focus_rect (<<>> when it assigned none).
CaptureLog(requests, answer, raised) ==
    [requests |-> requests, answer |-> answer, raised |-> raised, focus_rect |-> <<>>]

NoLog == CaptureLog(<<>>, NoAnswer, "")

\* A response of the Automation Server (server.py 299-323).
IpcResponse(status, exists, message) ==
    [status |-> status, exists |-> exists, message |-> message]

NoIpcResponse == IpcResponse("", FALSE, "")

\* An IPC call of the agent: its number, the verb and the handle it sends,
\* where it stands, whether it was made while the server was still busy,
\* the seconds since it was made and since its request was sent, the
\* messages it sent and received, and how it ended: "response", "timeout"
\* (poll gave False), "closed" (EOFError of recv) or "refused" (no
\* listener).
IpcCall(id, verb, root, at, blocked) ==
    [id |-> id, verb |-> verb, root |-> root, pc |-> at, blocked |-> blocked,
     waited |-> 0, polled |-> 0, sent |-> 0, received |-> 0, outcome |-> "",
     value |-> NoIpcResponse]

NoIpcCall == IpcCall(0, "", None, "idle", FALSE)

\* A connection the server accepted: the call it belongs to, the request
\* read from it, the messages read and sent, whether its handling raised,
\* and the response sent.
IpcConn(id) ==
    [call |-> id, verb |-> "", root |-> None, reads |-> 0, sends |-> 0, failed |-> FALSE,
     response |-> NoIpcResponse]

\* The server waits in listener.accept(); no call was made.
InitIpc ==
    /\ ipc_call = NoIpcCall
    /\ ipc_done = <<>>
    /\ ipc_conns = <<>>
    /\ ipc_srv = [pc |-> "accept", conn |-> 0, busy |-> 0]

\* No objective was given.
InitObj ==
    /\ obj_pc = "idle"
    /\ current_phase = 0
    /\ consults = 0
    /\ step_safety = 0
    /\ sprint_active = FALSE
    /\ sprint_errors = FALSE
    /\ obj_events = {}
    /\ obj_fatal = {}
    /\ obj_exit = ""

\* What send_chat_message returns: the parsed response, or the plan of
\* the except clause (api.py 157-165).
NoResult == [status |-> "", actions |-> <<>>, parsed |-> FALSE]

ParsedResponse == [status |-> "", actions |-> <<"action">>, parsed |-> TRUE]

FailedPlan == [status |-> "FAILED", actions |-> <<>>, parsed |-> FALSE]

\* send_chat_message was not called.
InitApi ==
    /\ api_pc = "idle"
    /\ max_retries = 0
    /\ attempt = 0
    /\ api_sent = 0
    /\ api_errors = <<>>
    /\ api_waits = <<>>
    /\ api_result = NoResult

\* The fusion got no scan.
InitFuse ==
    /\ fuse_in = [raw_elements |-> <<>>, focus_handle |-> None, boxes |-> <<>>]
    /\ fuse_out = <<>>
    /\ fuse_pc = "ready"

\* No type command was dispatched.
InitType ==
    /\ type_pc = "ready"
    /\ type_trace = <<>>

\* OSAgent.__init__ (agent.py 79, 83).
InitPlan ==
    /\ step_count = 0
    /\ current_sprint_plan = <<>>

\* The services as the specifications of the control loop leave them.
InitService ==
    /\ InitIpc
    /\ ipc_live = TRUE
    /\ InitObj
    /\ InitApi
    /\ InitPlan
    /\ InitType
    /\ InitFuse

\* No capture is under way.
InitCaptured ==
    /\ cap_pc = "idle"
    /\ cap_log = NoLog
    /\ captured = NoCapture

\* Nothing was passed to the redundancy filter.
InitNested ==
    /\ nested_in = <<>>
    /\ nested_out = <<>>
    /\ nested_pc = "ready"

\* observe_os_state got no scan.
InitDensity ==
    /\ density_in = [raw_elements |-> <<>>, focus_handle |-> None]
    /\ run_ocr = FALSE
    /\ density_pc = "ready"

InitPerception ==
    /\ InitCaptured
    /\ InitNested
    /\ InitDensity

InitExec ==
    /\ all_elements = [i \in ElementIds |-> "absent"]
    /\ call = NoCall
    /\ attempts = 0
    /\ windows_after = <<>>
    /\ result = Result("", None)
    /\ last_tool_output = ""
    /\ effect = ""
    /\ slept = 0
    /\ exec_pc = "ready"

\* No objective was ever started: the state of OSAgent.__init__.
InitLoop ==
    /\ is_running = FALSE
    /\ flag_writer = "init"
    /\ task_pc = [t \in Tasks |-> "none"]
    /\ cmd_count = [t \in Tasks |-> 0]
    /\ reply = ""

\* The agent after OSAgent.__init__ (agent.py 73-79), its control loop idle.
InitAgent ==
    /\ focus_stack = <<>>
    /\ known_windows = [n \in AppNames |-> None]
    /\ active_app_name = NoApp
    /\ focus_handle = None
    /\ window_snapshot = {}
    /\ current_win_list = <<>>
    /\ handles_before = {}
    /\ launch_name = NoApp
    /\ pc = "idle"
    /\ out = Quiet

InitOn(count) ==
    /\ InitLoop
    /\ InitExec
    /\ InitAgent
    /\ InitPerception
    /\ InitService
    /\ desktop \in 1..Len(Desktops)
    /\ handles = 1..count

(***************************************************************************)
(* /chat, /stop and the tasks of run_autonomous_loop on the event loop.    *)
(* A task runs from one await that suspends it to the next without         *)
(* interleaving; the handlers run between.  execute_os_action contains no  *)
(* await, so awaiting it suspends nothing: a task is suspended in          *)
(* asyncio.to_thread (capture, planner, coder), in the stream of the       *)
(* decision function and in asyncio.sleep.                                 *)
(***************************************************************************)
\* The task is inside the try block of run_autonomous_loop.
InLoop(t) == task_pc[t] \notin {"none", "created", "returned", "done"}

FreeSlots == {t \in Tasks : task_pc[t] \in {"none", "returned", "done"}}

\* POST /chat (main.py 107-122).
Chat ==
    /\ IF is_running
       THEN /\ reply' = "busy"
            /\ UNCHANGED <<task_pc, cmd_count>>
       ELSE /\ FreeSlots # {}
            /\ LET t == CHOOSE x \in FreeSlots : \A y \in FreeSlots : x <= y IN
               /\ task_pc' = [task_pc EXCEPT ![t] = "created"]
               /\ cmd_count' = [cmd_count EXCEPT ![t] = 0]
            /\ reply' = "started"
    /\ UNCHANGED <<execVars, perceptionVars, serviceVars, focusVars, is_running, flag_writer>>

\* POST /stop (main.py 124-128).
Stop ==
    /\ is_running' = FALSE
    /\ flag_writer' = "stop"
    /\ reply' = "stopped"
    /\ UNCHANGED <<execVars, perceptionVars, serviceVars, focusVars, task_pc, cmd_count>>

\* The finally block of run_autonomous_loop (agent.py 541-543).
Finally(t) ==
    /\ is_running' = FALSE
    /\ flag_writer' = "finally"
    /\ task_pc' = [task_pc EXCEPT ![t] = "done"]

\* Task t goes on to the await named: the flag is left as it is.
Suspend(t, at) ==
    /\ task_pc' = [task_pc EXCEPT ![t] = at]
    /\ UNCHANGED <<is_running, flag_writer>>

\* The while condition of run_autonomous_loop (agent.py 482): with the flag
\* set and phases left the task suspends in the capture of the next phase.
OuterTop(t, phases_left) ==
    IF is_running /\ phases_left THEN Suspend(t, "capture_phase") ELSE Finally(t)

\* The while condition of _run_executor_sprint (agent.py 670) and the
\* reconciliation: with the flag set and steps left the task suspends in
\* the sleep after a popup or in the capture of the cycle; otherwise the
\* sprint returns to the outer loop.
CycleTop(t, steps_left, popup_found, phases_left) ==
    IF is_running /\ steps_left
    THEN Suspend(t, IF popup_found THEN "popup_sleep" ELSE "capture_cycle")
    ELSE OuterTop(t, phases_left)

\* The task starts (agent.py 475-487): the guard, the flag, reset() and the
\* first phase up to its capture.  A task that finds the flag set returns
\* at the guard, before the try block and with no event sent.
LoopEnter(t) ==
    /\ task_pc[t] = "created"
    /\ IF is_running
       THEN /\ task_pc' = [task_pc EXCEPT ![t] = "returned"]
            /\ UNCHANGED <<is_running, flag_writer>>
       ELSE /\ is_running' = TRUE
            /\ flag_writer' = "loop"
            /\ task_pc' = [task_pc EXCEPT ![t] = "capture_phase"]
    /\ UNCHANGED <<execVars, perceptionVars, serviceVars, focusVars, cmd_count, reply>>

\* The capture of a phase is done; the task asks the planner (agent.py 487-495).
PhaseCaptured(t) ==
    /\ task_pc[t] = "capture_phase"
    /\ \E raised \in BOOLEAN :
          IF raised THEN Finally(t) ELSE Suspend(t, "consult")
    /\ UNCHANGED <<execVars, perceptionVars, serviceVars, focusVars, cmd_count, reply>>

\* The planner answered (agent.py 500-534).
Consulted(t) ==
    /\ task_pc[t] = "consult"
    /\ \E status \in {"CODING_REQUEST", "COMPLETED", "FAILED", "CONTINUE"},
          steps_left \in BOOLEAN, popup_found \in BOOLEAN, phases_left \in BOOLEAN :
          CASE status = "CODING_REQUEST" -> Suspend(t, "coding")
            [] status \in {"COMPLETED", "FAILED"} -> Finally(t)
            [] OTHER -> CycleTop(t, steps_left, popup_found, phases_left)
    /\ UNCHANGED <<execVars, perceptionVars, serviceVars, focusVars, cmd_count, reply>>

\* The coder session is over: continue (agent.py 512-514).
Coded(t) ==
    /\ task_pc[t] = "coding"
    /\ \E phases_left \in BOOLEAN : OuterTop(t, phases_left)
    /\ UNCHANGED <<execVars, perceptionVars, serviceVars, focusVars, cmd_count, reply>>

\* The sleep after a popup is over: the capture of the cycle (agent.py 704-747).
PopupSlept(t) ==
    /\ task_pc[t] = "popup_sleep"
    /\ Suspend(t, "capture_cycle")
    /\ UNCHANGED <<execVars, perceptionVars, serviceVars, focusVars, cmd_count, reply>>

\* The capture of a cycle is done (agent.py 747-773): the decision function
\* is asked, or the capture failed and the sprint ends.
CycleCaptured(t) ==
    /\ task_pc[t] = "capture_cycle"
    /\ \E failed \in BOOLEAN, phases_left \in BOOLEAN :
          IF failed THEN OuterTop(t, phases_left) ELSE Suspend(t, "think")
    /\ UNCHANGED <<execVars, perceptionVars, serviceVars, focusVars, cmd_count, reply>>

\* The dispatch loop (agent.py 850-942) from the command after the `done`
\* executed so far: `unslept` commands that are followed by no
\* sleep (launch_app, focus_window without a match), then either a command
\* that is followed by a sleep, or finish_sprint, or the end of the batch.
\* No command is preceded by a test of is_running.
Dispatch(t, done) ==
    \E unslept \in 0..(MaxBatch - done), last \in {"sleeps", "finish_sprint", "end"},
       steps_left \in BOOLEAN, popup_found \in BOOLEAN, phases_left \in BOOLEAN :
       CASE last = "sleeps" ->
               /\ done + unslept < MaxBatch
               /\ cmd_count' = [cmd_count EXCEPT ![t] = done + unslept + 1]
               /\ Suspend(t, "cmd_sleep")
         [] last = "finish_sprint" ->
               /\ cmd_count' = [cmd_count EXCEPT ![t] = done + unslept]
               /\ OuterTop(t, phases_left)
         [] OTHER ->
               /\ cmd_count' = [cmd_count EXCEPT ![t] = done + unslept]
               /\ CycleTop(t, steps_left, popup_found, phases_left)

\* The stream of the decision function is through (agent.py 818-850): no
\* call and a sleep, or a batch of calls whose dispatch starts, or the
\* stream raised and the cycle is over.
Thought(t) ==
    /\ task_pc[t] = "think"
    /\ \/ /\ Suspend(t, "idle_sleep")
          /\ cmd_count' = [cmd_count EXCEPT ![t] = 0]
       \/ Dispatch(t, 0)
    /\ UNCHANGED <<execVars, perceptionVars, serviceVars, focusVars, reply>>

\* The sleep after a command is over: the dispatch loop goes on.
CommandSlept(t) ==
    /\ task_pc[t] = "cmd_sleep"
    /\ Dispatch(t, cmd_count[t])
    /\ UNCHANGED <<execVars, perceptionVars, serviceVars, focusVars, reply>>

\* The sleep after an empty answer is over, or the cycle is otherwise
\* through: the next cycle (agent.py 670).
NextCycle(t) ==
    /\ task_pc[t] = "idle_sleep"
    /\ \E steps_left \in BOOLEAN, popup_found \in BOOLEAN, phases_left \in BOOLEAN :
          CycleTop(t, steps_left, popup_found, phases_left)
    /\ UNCHANGED <<execVars, perceptionVars, serviceVars, focusVars, cmd_count, reply>>

NextLoop ==
    \/ Chat
    \/ Stop
    \/ \E t \in Tasks :
          \/ LoopEnter(t)
          \/ PhaseCaptured(t)
          \/ Consulted(t)
          \/ Coded(t)
          \/ PopupSlept(t)
          \/ CycleCaptured(t)
          \/ Thought(t)
          \/ CommandSlept(t)
          \/ NextCycle(t)

\* The event loop with no desktop attached to the model.
InitTasks ==
    /\ InitLoop
    /\ InitExec
    /\ InitAgent
    /\ InitPerception
    /\ InitService
    /\ desktop = 1
    /\ handles = {}

SpecLoop == InitTasks /\ [][NextLoop]_vars

(***************************************************************************)
(* The dispatch of one function call: execute_os_action (core.py 651-938)  *)
(* and the feedback the executor makes of its result (agent.py 850-959).   *)
(* The registration of a launched window is DispatchLaunchEnd's, under     *)
(* Spec.                                                                   *)
(***************************************************************************)
\* The kinds of element a capture holds under an id: none, a UIA element
\* with a top-level handle, an OCR text, a UIA element without a handle.
ElementKinds == {"absent", "uia", "ocr", "nohandle"}

ClickTools == {"click_element", "double_click_element", "right_click_element"}

\* direct_aliases and the manual entries of get_system_app_index, as far as
\* the names of the model go.
direct_aliases == {"calc", "calculator"}

app_map == {"calc", "calculator", "snipping tool"}

\* How launch_app finds target_cmd for app_name_input (core.py 826-844).
Resolve(app_name_input) ==
    IF app_name_input \in direct_aliases THEN "alias"
    ELSE IF app_name_input \in app_map THEN "index"
    ELSE IF \E name \in app_map : InStr(app_name_input, name) \/ InStr(name, app_name_input)
         THEN "fuzzy"
         ELSE "literal"

\* What the click family does to an element of the kind (core.py 680-741).
ClickEffect(kind) ==
    CASE kind = "absent" -> "nothing"
      [] kind = "uia" -> "interact"
      [] OTHER -> "click"

\* What type does for an element id (core.py 765-804).
TypeEffect(element_id, elements) ==
    IF element_id = NoId THEN "write"
    ELSE CASE elements[element_id] = "ocr" -> "click, write"
           [] elements[element_id] = "uia" -> "interact click, interact type"
           [] OTHER -> "write"

\* The dispatch leaves the focus state and the polls alone.
ExecFrame ==
    UNCHANGED <<focusVars, loopVars, perceptionVars, serviceVars, attempts, windows_after, slept>>

\* A capture gave the elements, and click_element, double_click_element or
\* right_click_element is dispatched through the executor's last branch
\* (agent.py 929-936): execute_os_action returns None whatever it did, and
\* the feedback is "Action executed.".
ExecClick ==
    /\ exec_pc = "ready"
    /\ \E elements \in [ElementIds -> ElementKinds], tool \in ClickTools,
          element_id \in ElementIds :
          /\ all_elements' = elements
          /\ call' = [NoCall EXCEPT !.tool = tool, !.element_id = element_id]
          /\ effect' = ClickEffect(elements[element_id])
    /\ result' = Result("none", None)
    /\ last_tool_output' = "Action executed."
    /\ exec_pc' = "done"
    /\ ExecFrame

\* The same for type_text, whose element id is optional.
ExecType ==
    /\ exec_pc = "ready"
    /\ \E elements \in [ElementIds -> ElementKinds], element_id \in ElementIds \cup {NoId} :
          /\ all_elements' = elements
          /\ call' = [NoCall EXCEPT !.tool = "type_text", !.element_id = element_id]
          /\ effect' = TypeEffect(element_id, elements)
    /\ result' = Result("none", None)
    /\ last_tool_output' = "Action executed."
    /\ exec_pc' = "done"
    /\ ExecFrame

\* launch_app up to the first poll (core.py 806-860): an empty name raises
\* ValueError, which the executor's outer handler turns into "SYSTEM ERROR"
\* (agent.py 955-959); a Popen that raises gives the error result, for
\* which the executor reports "ERROR: App ... NOT found in index".
LaunchStartOn(before, failed) ==
    /\ exec_pc = "ready"
    /\ \E name \in LaunchInputs, started \in BOOLEAN :
          LET app_name_input == Strip(Lower(name))
              windows_before == IF failed THEN <<>> ELSE before
          IN
          IF app_name_input = ""
          THEN /\ call' = [NoCall EXCEPT !.tool = "launch_app", !.app_name = name]
               /\ result' = Result("raised", None)
               /\ last_tool_output' = "SYSTEM ERROR"
               /\ effect' = "nothing"
               /\ exec_pc' = "done"
               /\ UNCHANGED handles_before
          ELSE /\ call' = [NoCall EXCEPT !.tool = "launch_app", !.app_name = name,
                                         !.target_cmd = Resolve(app_name_input),
                                         !.existed = Range(before)]
               /\ handles_before' = Range(windows_before)
               /\ IF started
                  THEN /\ result' = Result("", None)
                       /\ last_tool_output' = last_tool_output
                       /\ effect' = "launched"
                       /\ exec_pc' = "polling"
                  ELSE /\ result' = Result("error", None)
                       /\ last_tool_output' = "ERROR"
                       /\ effect' = "nothing"
                       /\ exec_pc' = "done"
    /\ UNCHANGED <<loopVars, perceptionVars, serviceVars, desktop, handles, focus_stack, known_windows, active_app_name,
                   focus_handle, window_snapshot, current_win_list, launch_name, pc, out,
                   all_elements, attempts, windows_after, slept>>

\* The launch whose window list request is answered: `before` lists the
\* visible windows of the moment.
LaunchStart ==
    exec_pc = "ready" /\ \E lst \in WindowListAnswers : LaunchStartOn(lst, FALSE)

\* The launch whose window list request fails (core.py 1082-1092: error
\* response, timeout or transport error give []), while the windows of
\* `before` are open.
LaunchStartFailed ==
    /\ exec_pc = "ready"
    /\ \E lst \in WindowListAnswers : lst # <<>> /\ LaunchStartOn(lst, TRUE)

\* The values the decision function passes as `seconds` of the wait tool
\* (an INTEGER parameter, agent.py 262); <<>> when it passes none.
WaitInputs == {<<>>, <<-1>>, <<0>>, <<1>>, <<2>>, <<30>>, <<31>>, <<100>>}

\* asyncio.sleep(delay) suspends the caller for delay seconds, and not at
\* all for a delay of zero or less.
AsyncioSleep(delay) == IF delay <= 0 THEN 0 ELSE delay

\* The executor's wait branch (agent.py 921-924): seconds defaults to 2,
\* the task sleeps for it and the feedback is "Waited {sec}s."; no sleep
\* follows a wait (agent.py 941).
ExecWait ==
    /\ exec_pc = "ready"
    /\ \E seconds \in WaitInputs :
          LET sec == IF seconds = <<>> THEN 2 ELSE seconds[1] IN
          /\ call' = [NoCall EXCEPT !.tool = "wait", !.seconds = seconds]
          /\ slept' = AsyncioSleep(sec)
    /\ result' = Result("", None)
    /\ last_tool_output' = "Waited"
    /\ effect' = "nothing"
    /\ exec_pc' = "done"
    /\ UNCHANGED <<focusVars, loopVars, perceptionVars, serviceVars, all_elements, attempts, windows_after>>

max_attempts == 20

\* One pass of the poll loop (core.py 862-906): a poll with a valid
\* candidate ends the launch with its best match; the last poll without one
\* ends it without a handle.
LaunchPoll ==
    /\ exec_pc = "polling"
    /\ attempts < max_attempts
    /\ attempts' = attempts + 1
    /\ \E lst \in WindowListAnswers :
          LET app_name_input == Strip(Lower(call.app_name))
              found == ValidCandidates(lst, handles_before) # {}
          IN /\ windows_after' = lst
             /\ IF found
                THEN /\ result' = Result("success", BestMatch(lst, handles_before, app_name_input))
                     /\ last_tool_output' = "SUCCESS"
                     /\ exec_pc' = "done"
                ELSE IF attempts' = max_attempts
                     THEN /\ result' = Result("success", None)
                          /\ last_tool_output' = "WARNING"
                          /\ exec_pc' = "done"
                     ELSE UNCHANGED <<result, last_tool_output, exec_pc>>
    /\ UNCHANGED <<focusVars, loopVars, perceptionVars, serviceVars, all_elements, call, effect, slept>>

\* The dispatch is over and the decision function has read the feedback:
\* the next call, after the next capture.
NextCall ==
    /\ exec_pc = "done"
    /\ exec_pc' = "ready"
    /\ all_elements' = [i \in ElementIds |-> "absent"]
    /\ call' = NoCall
    /\ attempts' = 0
    /\ windows_after' = <<>>
    /\ result' = Result("", None)
    /\ effect' = ""
    /\ slept' = 0
    /\ handles_before' = {}
    /\ last_tool_output' = ""
    /\ UNCHANGED <<loopVars, perceptionVars, serviceVars, desktop, handles, focus_stack, known_windows, active_app_name,
                   focus_handle, window_snapshot, current_win_list, launch_name, pc, out>>

NextExec ==
    \/ ExecClick
    \/ ExecType
    \/ ExecWait
    \/ LaunchStart
    \/ LaunchPoll
    \/ NextCall

InitLaunchDesktop ==
    /\ InitLoop
    /\ InitExec
    /\ InitAgent
    /\ InitPerception
    /\ InitService
    /\ desktop = 0
    /\ handles = LaunchHandles

SpecExec == InitLaunchDesktop /\ [][NextExec]_vars

\* execute_os_action with the launch whose first window list request fails.
NextExecFaults ==
    \/ NextExec
    \/ LaunchStartFailed

SpecExecFaults == InitLaunchDesktop /\ [][NextExecFaults]_vars

(***************************************************************************)
(* Perception: the scans of the Automation Server (server.py 85-164), the  *)
(* analyze request (core.py 1034-1055) and observe_os_state (core.py       *)
(* 165-313)                                                                *)
(***************************************************************************)
\* The most elements of a scan and the most texts of a recognition, the
\* long scans aside.
MaxScan == 2

MaxOcr == 1

\* The first id of the recognised texts when no element precedes them.
ocr_start_id == 9000

\* Monitor 1 as mss reports it, as (left, top, right, bottom); a screen grab
\* has its size.
MonitorRect == <<0, 0, 1000, 700>>

\* Where the windows of LaunchDesktop lie: 10 on the monitor, 11 beside it.
WindowOrigin == (10 :> <<100, 100>>) @@ (11 :> <<1100, 100>>)

\* The handles of the desktop under SpecCapture.
CaptureHandles == DOMAIN WindowOrigin

\* GetWindowRect of the window behind h.
WindowRectOf(h) ==
    <<WindowOrigin[h][1], WindowOrigin[h][2],
      WindowOrigin[h][1] + WindowOf(h).width, WindowOrigin[h][2] + WindowOf(h).height>>

\* An element as fetch_raw_elements reports it.
RawElement(name, type, rect, handle) ==
    [name |-> name, type |-> type, rectangle_coords |-> rect, top_level_handle |-> handle]

\* The elements window h can show: itself, a button inside it, and an image
\* that reaches out of it (its center lies outside the window).
WindowElement(h) == RawElement(WindowOf(h).title, "Window", WindowRectOf(h), h)

ButtonOf(h) ==
    RawElement("ok", "Button",
               <<WindowRectOf(h)[1] + 10, WindowRectOf(h)[2] + 10,
                 WindowRectOf(h)[1] + 40, WindowRectOf(h)[2] + 30>>, h)

ImageOf(h) ==
    RawElement("", "Image",
               <<WindowRectOf(h)[3] - 10, WindowRectOf(h)[2] + 50,
                 WindowRectOf(h)[3] + 90, WindowRectOf(h)[2] + 90>>, h)

\* A scan of n panes that fill window h.
PaneScan(h, n) == [i \in 1..n |-> RawElement("", "Pane", WindowRectOf(h), h)]

\* A window with five buttons.
DenseScan(h) == <<WindowElement(h)>> \o [i \in 1..5 |-> ButtonOf(h)]

\* The data of a successful analyze over the windows hs: up to MaxScan of
\* their elements in any order, a dense window, or a scan that reaches the
\* first id of the texts.
Scans(hs) ==
    LET universe == UNION {{WindowElement(h), ButtonOf(h), ImageOf(h)} : h \in hs}
    IN UNION {{q \in [1..n -> universe] : \A i, j \in 1..n : q[i] = q[j] => i = j} :
                n \in 0..MaxScan}
         \cup {DenseScan(h) : h \in hs}
         \cup {PaneScan(h, n) : h \in hs \cap {10}, n \in {ocr_start_id + 1}}

\* What the client of an analyze request can get: the server's response, no
\* response within the timeout, or no connection.
Response(status, message, data) ==
    [kind |-> "response", status |-> status, message |-> message, data |-> data]

NoResponse == [kind |-> "timeout", status |-> "", message |-> "", data |-> <<>>]

NoConnection == [kind |-> "refused", status |-> "", message |-> "", data |-> <<>>]

\* fetch_raw_elements: a scoped scan of a window that does not exist, or
\* that cannot be reached, is answered with an error and its message; so is
\* any scan that fails as a whole.
FetchRawElements(root_handle, exists, failed, data) ==
    IF root_handle # None /\ ~exists
    THEN Response("error", "Target window handle invalid or closed", <<>>)
    ELSE IF failed
         THEN Response("error", IF root_handle # None THEN "Focus handle access failed"
                                ELSE "scan failed", <<>>)
         ELSE Response("success", "", data)

\* Every reply to analyze(root_handle).
AnalyzeReplies(root_handle) ==
    {NoResponse, NoConnection}
      \cup {FetchRawElements(root_handle, exists, failed, data) :
              exists \in BOOLEAN, failed \in BOOLEAN,
              data \in Scans(IF root_handle # None THEN {root_handle} ELSE handles)}

\* What a call returns: a value, or the exception it raised ("" for none).
Returned(value) == [raised |-> "", value |-> value]

Raised(exception) == [raised |-> exception, value |-> <<>>]

\* A variant of _trigger_ipc_analysis that treats the timeout of a scoped
\* request like that of a full one: C12_AnalyzeTimeout tells it from the
\* code.
TriggerIpcAnalysis_TimeoutEmpty(root_handle, answer) ==
    IF answer.kind = "response" /\ answer.status = "success"
    THEN Returned(answer.data)
    ELSE IF answer.kind = "response" /\ answer.message = "HandleInvalid"
         THEN Raised("HandleInvalid")
         ELSE Returned(<<>>)

\* _trigger_ipc_analysis: the data of a success; ValueError("HandleInvalid")
\* for a response with that message and for a scoped request without a
\* response; [] for every other response and, through the handler of line
\* 1052, for every other exception (TimeoutError of a full request, no
\* connection).
TriggerIpcAnalysis(root_handle, answer) ==
    IF answer.kind = "response"
    THEN IF answer.status = "success"
         THEN Returned(answer.data)
         ELSE IF answer.message = "HandleInvalid"
              THEN Raised("HandleInvalid")
              ELSE Returned(<<>>)
    ELSE IF answer.kind = "timeout" /\ root_handle # None
         THEN Raised("HandleInvalid")
         ELSE Returned(<<>>)

\* An element of a capture.
Element(id, name, type, rect, handle) ==
    [id |-> id, name |-> name, type |-> type, absolute_rectangle |-> rect,
     top_level_handle |-> handle]

\* The boxes EasyOCR finds on a screen grab, in image coordinates: one on
\* the button of window 10, one on the bare desktop.
OcrBoxes == {<<115, 112, 135, 128>>, <<700, 500, 760, 520>>}

\* The results of one recognition; none also when the reader is missing or
\* fails (core.py 127-137).
OcrResults ==
    UNION {{q \in [1..n -> OcrBoxes] : \A i, j \in 1..n : q[i] = q[j] => i = j} :
             n \in 0..MaxOcr}

\* _is_rect_on_monitor: the center of the rectangle lies on the monitor.
IsRectOnMonitor(window_rect, monitor_rect) ==
    /\ 2 * monitor_rect[1] <= window_rect[1] + window_rect[3]
    /\ window_rect[1] + window_rect[3] < 2 * monitor_rect[3]
    /\ 2 * monitor_rect[2] <= window_rect[2] + window_rect[4]
    /\ window_rect[2] + window_rect[4] < 2 * monitor_rect[4]

\* The center of a rectangle by floor division, as the fusion and the crop
\* compute it.
Center(r) == <<(r[1] + r[3]) \div 2, (r[2] + r[4]) \div 2>>

Inside(point, r) ==
    r[1] <= point[1] /\ point[1] <= r[3] /\ r[2] <= point[2] /\ point[2] <= r[4]

\* The types of the model that hold one of blocker_types (core.py 214-218).
blocker_types == {"Button"}

\* force_ocr_vm (core.py 220-233) on the root name of the scan.
ForceOcrVm(raw_elements) ==
    /\ raw_elements # <<>>
    /\ LET root_name == Lower(raw_elements[1].name) IN
       \/ InStr("oracle", root_name)
       \/ InStr("virtualbox", root_name)
       \/ /\ InStr("vm", root_name)
          /\ \/ InStr(" vm ", root_name)
             \/ StartsWith(root_name, "vm ")
             \/ EndsWith(root_name, " vm")
             \/ root_name = "vm"

\* perform_ocr_scan: the texts with their ids from start_id on and their
\* rectangles moved by the offset of the grab.
PerformOcrScan(boxes, offset, start_id) ==
    [k \in 1..Len(boxes) |->
        Element(start_id + (k - 1), "text", "OCR_TEXT",
                <<offset[1] + boxes[k][1], offset[2] + boxes[k][2],
                  offset[1] + boxes[k][3], offset[2] + boxes[k][4]>>, None)]

\* The structural elements of observe_os_state (core.py 236-259): those on
\* the monitor when the scan is not scoped, numbered as they are appended.
DetectedElements(raw_elements, scan_handle) ==
    LET kept == SelectSeq(raw_elements,
                          LAMBDA el : \/ scan_handle # None
                                      \/ IsRectOnMonitor(el.rectangle_coords, MonitorRect))
    IN [i \in 1..Len(kept) |->
          Element(i - 1, kept[i].name, kept[i].type, kept[i].rectangle_coords,
                  kept[i].top_level_handle)]

\* A variant of the start id that ignores the structural ids:
\* C17_UniqueIds tells it from the code.
OcrStartId_Fixed(detected_elements) == ocr_start_id

\* A variant that starts 100 above the last structural id whatever that
\* is: C18_TextAboveStructural tells it from the code.
OcrStartId_NoBase(detected_elements) ==
    IF Len(detected_elements) > 0
    THEN detected_elements[Len(detected_elements)].id + 100
    ELSE ocr_start_id

\* The id of the first text (core.py 275-278).
OcrStartId(detected_elements) ==
    IF Len(detected_elements) > 0
    THEN LET last == detected_elements[Len(detected_elements)].id + 100 IN
         IF last > ocr_start_id THEN last ELSE ocr_start_id
    ELSE ocr_start_id

\* total_uia_count (core.py 236-259): the elements taken over that are
\* neither windows nor panes.
TotalUiaCount(raw_elements, scan_handle) ==
    LET detected_elements == DetectedElements(raw_elements, scan_handle)
    IN Cardinality({i \in 1..Len(detected_elements) :
                      detected_elements[i].type \notin {"Window", "Pane"}})

\* A variant that still recognises texts at a count of 5:
\* C21_OcrHeuristic tells it from the code.
RunOcr_AtMostFive(raw_elements, scan_handle) ==
    ForceOcrVm(raw_elements) \/ TotalUiaCount(raw_elements, scan_handle) <= 5

\* run_ocr (core.py 262-270).
RunOcr(raw_elements, scan_handle) ==
    ForceOcrVm(raw_elements) \/ TotalUiaCount(raw_elements, scan_handle) < 5

\* A variant of is_covered that suppresses texts in VM mode, too:
\* C32_TextSuppression tells it from the code.
IsCovered_AlsoForced(ocr_el, force_ocr_vm, uia_blockers) ==
    \E u_rect \in uia_blockers : Inside(Center(ocr_el.absolute_rectangle), u_rect)

\* is_covered (core.py 291-298): unless the VM heuristic forced the
\* recognition, the center of the text lies in a blocker.
IsCovered(ocr_el, force_ocr_vm, uia_blockers) ==
    /\ ~force_ocr_vm
    /\ \E u_rect \in uia_blockers : Inside(Center(ocr_el.absolute_rectangle), u_rect)

\* The elements of observe_os_state for the data of the scan and the boxes
\* of the recognition (core.py 236-308): the texts are added when the VM
\* heuristic forces it or fewer than 5 elements are neither windows nor
\* panes; unless forced, a text whose center lies in a blocker is left out.
FuseElements(raw_elements, scan_handle, boxes) ==
    LET detected_elements == DetectedElements(raw_elements, scan_handle)
        force_ocr_vm == ForceOcrVm(raw_elements)
        uia_blockers == {detected_elements[i].absolute_rectangle :
                           i \in {j \in 1..Len(detected_elements) :
                                    detected_elements[j].type \in blocker_types}}
        raw_ocr == PerformOcrScan(boxes, <<MonitorRect[1], MonitorRect[2]>>,
                                  OcrStartId(detected_elements))
    IN IF RunOcr(raw_elements, scan_handle)
       THEN detected_elements
              \o SelectSeq(raw_ocr,
                           LAMBDA ocr_el : ~IsCovered(ocr_el, force_ocr_vm, uia_blockers))
       ELSE detected_elements

\* observe_os_state: the grab may raise; the analyze request may raise
\* HandleInvalid; otherwise the grab, the fused elements and the offset of
\* the monitor.
ObserveOsState(scan_handle, grabbed, answer, boxes) ==
    IF ~grabbed THEN Raised("ScreenShotError")
    ELSE LET raw_elements == TriggerIpcAnalysis(scan_handle, answer) IN
         IF raw_elements.raised # "" THEN Raised(raw_elements.raised)
         ELSE Returned(Snapshot(Image("screenshot", MonitorRect[3] - MonitorRect[1],
                                      MonitorRect[4] - MonitorRect[2]),
                                FuseElements(raw_elements.value, scan_handle, boxes),
                                <<MonitorRect[1], MonitorRect[2]>>))

(***************************************************************************)
(* _capture_state (agent.py 307-406) between two suspensions: up to the    *)
(* thread that runs observe_os_state, and from its result to the return.   *)
(***************************************************************************)
\* next(el for el in all_elements if el.get('top_level_handle') == handle):
\* the position of the first such element from i on, 0 for none.
RECURSIVE FirstOwned(_, _, _)
FirstOwned(elements, handle, i) ==
    IF i > Len(elements) THEN 0
    ELSE IF elements[i].top_level_handle = handle THEN i
    ELSE FirstOwned(elements, handle, i + 1)

\* max(0, min(limit, v)).
Clamp(limit, v) == IF v > limit THEN limit ELSE IF v < 0 THEN 0 ELSE v

\* The crop of _capture_state (agent.py 362-406) for the focus handle.  The
\* focus rectangle is that of the first element the window owns; without
\* one, get_handle_rect is called with four arguments for its three
\* parameters (agent.py 370, core.py 1166), the TypeError is caught at line
\* 402 and the capture stays as it is.  A crop box of 20 or less in either
\* axis leaves it as it is, too.
CropToFocus(handle, obs) ==
    LET window_element == FirstOwned(obs.elements, handle, 1) IN
    IF window_element = 0 THEN obs
    ELSE LET focus_rect == obs.elements[window_element].absolute_rectangle
             crop_left == Clamp(obs.img.width, focus_rect[1] - obs.offset[1])
             crop_top == Clamp(obs.img.height, focus_rect[2] - obs.offset[2])
             crop_right == Clamp(obs.img.width, focus_rect[3] - obs.offset[1])
             crop_bottom == Clamp(obs.img.height, focus_rect[4] - obs.offset[2])
         IN IF (crop_right - crop_left) > 20 /\ (crop_bottom - crop_top) > 20
            THEN Snapshot(Image("screenshot", crop_right - crop_left, crop_bottom - crop_top),
                          SelectSeq(obs.elements,
                                    LAMBDA el : Inside(Center(el.absolute_rectangle),
                                                       focus_rect)),
                          <<obs.offset[1] + crop_left, obs.offset[2] + crop_top>>)
            ELSE obs

\* self.focus_rect as the crop assigns it (agent.py 364-372): the rectangle
\* of the first element the window owns; none when there is no such
\* element, as get_handle_rect raises before the assignment.
FocusRectOf(handle, obs) ==
    LET window_element == FirstOwned(obs.elements, handle, 1) IN
    IF window_element = 0 THEN <<>> ELSE obs.elements[window_element].absolute_rectangle

\* A variant of the handler of line 355 that lets ValueError through:
\* C14_CaptureNeverRaises tells it from the code.
Caught_NotValueError(exception) == exception # "HandleInvalid"

\* `except Exception` (agent.py 355) catches whatever observe_os_state
\* raises.
Caught(exception) == TRUE

\* A sprint cycle whose popup detection focuses window h (agent.py
\* 684-700).
PopupFocus ==
    /\ cap_pc = "idle"
    /\ \E h \in handles :
          /\ Listable(h)
          /\ PopupQualifies(WindowOf(h))
          /\ SetFocus(UpdateFocusStack(CurrentFocus, WindowOf(h).title, h))
    /\ UNCHANGED <<loopVars, execVars, perceptionVars, serviceVars, desktop, handles, window_snapshot,
                   current_win_list, handles_before, launch_name, pc, out>>

\* _capture_state up to its first await (agent.py 321-347): the handle
\* validation, and observe_os_state is handed to a thread.
CaptureStart ==
    /\ cap_pc = "idle"
    /\ \E exists \in (IF active_app_name # NoApp /\ known_windows[active_app_name] # None
                      THEN CheckHandleAnswers
                      ELSE {FALSE}) :
          SetFocus(CaptureValidate(CurrentFocus, exists))
    /\ cap_pc' = "observe"
    /\ cap_log' = NoLog
    /\ captured' = NoCapture
    /\ UNCHANGED <<loopVars, execVars, functionVars, serviceVars, desktop, handles, window_snapshot,
                   current_win_list, handles_before, launch_name, pc, out>>

\* The end of a capture whose last observe_os_state gave obs, after the
\* analyze requests of the log (agent.py 353-406).
CaptureEnd(obs, log) ==
    /\ cap_log' = [log EXCEPT !.focus_rect =
                      IF obs.raised = "" /\ focus_handle # None /\ obs.value.img # NoImage
                      THEN FocusRectOf(focus_handle, obs.value)
                      ELSE <<>>]
    /\ IF obs.raised # ""
       THEN IF Caught(obs.raised)
            THEN captured' = Placeholder /\ cap_pc' = "returned"
            ELSE captured' = NoCapture /\ cap_pc' = "raised"
       ELSE /\ captured' = IF focus_handle # None /\ obs.value.img # NoImage
                           THEN CropToFocus(focus_handle, obs.value)
                           ELSE obs.value
            /\ cap_pc' = "returned"

\* _capture_state from the result of the thread to its return (agent.py
\* 345-406): a scoped observation without elements and without an image is
\* repeated for the full desktop; an exception of either gives the
\* placeholder; a capture with a focus handle is cropped.
CaptureFinish ==
    /\ cap_pc = "observe"
    /\ \E grabbed \in BOOLEAN, answer \in AnalyzeReplies(focus_handle), boxes \in OcrResults :
          LET targeted == ObserveOsState(focus_handle, grabbed, answer, boxes)
              log == CaptureLog(IF grabbed THEN <<focus_handle>> ELSE <<>>,
                                IF grabbed THEN answer ELSE NoAnswer, targeted.raised)
          IN IF /\ targeted.raised = ""
                /\ focus_handle # None
                /\ targeted.value.elements = <<>>
                /\ targeted.value.img = NoImage
             THEN \E grabbed_full \in BOOLEAN, answer_full \in AnalyzeReplies(None),
                     boxes_full \in OcrResults :
                     LET full == ObserveOsState(None, grabbed_full, answer_full, boxes_full)
                     IN CaptureEnd(full,
                                   CaptureLog(log.requests
                                                \o (IF grabbed_full THEN <<None>> ELSE <<>>),
                                              log.answer, full.raised))
             ELSE CaptureEnd(targeted, log)
    /\ UNCHANGED <<focusVars, loopVars, execVars, functionVars, serviceVars>>

\* The caller has the snapshot (agent.py 487, 747), and the loop goes on to
\* its next capture.
CaptureNext ==
    /\ cap_pc = "returned"
    /\ cap_pc' = "idle"
    /\ cap_log' = NoLog
    /\ captured' = NoCapture
    /\ UNCHANGED <<focusVars, loopVars, execVars, functionVars, serviceVars>>

NextCapture ==
    \/ PopupFocus
    \/ CaptureStart
    \/ CaptureFinish
    \/ CaptureNext

InitCapture ==
    /\ InitLoop
    /\ InitExec
    /\ InitAgent
    /\ InitPerception
    /\ InitService
    /\ desktop = 0
    /\ handles = CaptureHandles

SpecCapture == InitCapture /\ [][NextCapture]_vars

(***************************************************************************)
(* _filter_nested_elements (core.py 479-529), the redundancy filter of the *)
(* annotated image                                                         *)
(***************************************************************************)
\* The most elements of a list passed to the filter.
MaxNested == 3

\* The rectangles of the elements passed: a box of 100 x 100, boxes inside
\* it that cover 16 %, 80 % and 90.25 % of it, two flat boxes one pixel
\* apart, a box far away, a box without area, and <<>> for an element that
\* has no rectangle.
NestedRects ==
    {<<0, 0, 100, 100>>, <<10, 10, 50, 50>>, <<0, 0, 100, 80>>, <<0, 0, 95, 95>>,
     <<0, 0, 10, 4>>, <<0, 5, 10, 9>>, <<200, 200, 300, 300>>, <<5, 5, 5, 20>>, <<>>}

\* The lists passed to the filter: each element with its position as id.
NestedInputs ==
    UNION {{[i \in 1..n |-> [id |-> i, absolute_rectangle |-> rects[i]]] :
              rects \in [1..n -> NestedRects]} : n \in 0..MaxNested}

\* get_area.
GetArea(r) == IF r = <<>> THEN 0 ELSE (r[3] - r[1]) * (r[4] - r[2])

\* with_area after its sort: the elements that have a rectangle, by area,
\* those of equal area in the order of the list (the sort is stable).
WithAreaSorted(elements) ==
    LET with_area == SelectSeq(elements, LAMBDA el : el.absolute_rectangle # <<>>)
        area(i) == GetArea(with_area[i].absolute_rectangle)
        rank(i) == Cardinality({j \in 1..Len(with_area) :
                                  area(j) < area(i) \/ (area(j) = area(i) /\ j < i)}) + 1
    IN [k \in 1..Len(with_area) |->
          with_area[CHOOSE i \in 1..Len(with_area) : rank(i) = k]]

\* A variant of the test with the comparison of the ratio turned round:
\* C19_SmallInsideLargeKept tells it from the code.
IsRedundant_CoverageBelow(current_rect, kept_elements) ==
    \E k \in 1..Len(kept_elements) :
       LET kept_rect == kept_elements[k].absolute_rectangle IN
       /\ kept_rect[1] >= current_rect[1] - 5
       /\ kept_rect[2] >= current_rect[2] - 5
       /\ kept_rect[3] <= current_rect[3] + 5
       /\ kept_rect[4] <= current_rect[4] + 5
       /\ 100 * GetArea(kept_rect) < 80 * GetArea(current_rect)

\* is_redundant for the current element (core.py 510-522): a kept element
\* lies within the current rectangle widened by 5 and has more than 0.80 of
\* its area.
IsRedundant(current_rect, kept_elements) ==
    \E k \in 1..Len(kept_elements) :
       LET kept_rect == kept_elements[k].absolute_rectangle IN
       /\ kept_rect[1] >= current_rect[1] - 5
       /\ kept_rect[2] >= current_rect[2] - 5
       /\ kept_rect[3] <= current_rect[3] + 5
       /\ kept_rect[4] <= current_rect[4] + 5
       /\ 100 * GetArea(kept_rect) > 80 * GetArea(current_rect)

\* The loop over with_area from position i on (core.py 501-527).
RECURSIVE KeptElements(_, _, _)
KeptElements(with_area, i, kept_elements) ==
    IF i > Len(with_area) THEN kept_elements
    ELSE LET current_rect == with_area[i].absolute_rectangle IN
         IF GetArea(current_rect) <= 0 \/ IsRedundant(current_rect, kept_elements)
         THEN KeptElements(with_area, i + 1, kept_elements)
         ELSE KeptElements(with_area, i + 1, Append(kept_elements, with_area[i]))

\* _filter_nested_elements.
FilterNestedElements(elements) ==
    IF elements = <<>> THEN <<>> ELSE KeptElements(WithAreaSorted(elements), 1, <<>>)

\* The filter runs on the list passed.
FilterNested ==
    /\ nested_pc = "ready"
    /\ nested_out' = FilterNestedElements(nested_in)
    /\ nested_pc' = "done"
    /\ UNCHANGED <<focusVars, loopVars, execVars, captureVars, densityVars, serviceVars, nested_in>>

NextFilter == FilterNested

InitFilter ==
    /\ InitLoop
    /\ InitExec
    /\ InitAgent
    /\ InitCaptured
    /\ InitDensity
    /\ InitService
    /\ desktop = 0
    /\ handles = {}
    /\ nested_in \in NestedInputs
    /\ nested_out = <<>>
    /\ nested_pc = "ready"

SpecFilter == InitFilter /\ [][NextFilter]_vars

(***************************************************************************)
(* The density and VM heuristic of observe_os_state (core.py 220-270) on   *)
(* the scan of one window                                                  *)
(***************************************************************************)
\* The most elements a scanned window has besides itself.
MaxDensity == 12

\* The titles of the scanned window.
DensityTitles ==
    {"Oracle VM VirtualBox Manager", "Notepad", "VM", "Ubuntu VM", "VM Tools", "VMware"}

\* The scan of window 10 with that title: the window, then panes, buttons
\* on the monitor and buttons beside the monitor.
DensityScan(title, panes, buttons, beside) ==
    <<RawElement(title, "Window", WindowRectOf(10), 10)>>
      \o [i \in 1..panes |-> RawElement("", "Pane", WindowRectOf(10), 10)]
      \o [i \in 1..buttons |-> ButtonOf(10)]
      \o [i \in 1..beside |-> ButtonOf(11)]

\* What observe_os_state gets: the scan, and the focus handle of a scoped
\* scan or None.
DensityInputs ==
    {[raw_elements |-> DensityScan(title, panes, buttons, beside), focus_handle |-> h] :
       title \in DensityTitles, h \in {None, 10},
       panes \in 0..MaxDensity, buttons \in 0..MaxDensity, beside \in 0..MaxDensity}

\* observe_os_state decides whether to recognise texts.
ObserveDensity ==
    /\ density_pc = "ready"
    /\ run_ocr' = RunOcr(density_in.raw_elements, density_in.focus_handle)
    /\ density_pc' = "done"
    /\ UNCHANGED <<focusVars, loopVars, execVars, captureVars, filterVars, serviceVars, density_in>>

NextDensity == ObserveDensity

InitDensityScan ==
    /\ InitLoop
    /\ InitExec
    /\ InitAgent
    /\ InitCaptured
    /\ InitNested
    /\ InitService
    /\ desktop = 0
    /\ handles = {}
    /\ density_in \in {d \in DensityInputs : Len(d.raw_elements) <= MaxDensity + 1}
    /\ run_ocr = FALSE
    /\ density_pc = "ready"

SpecDensity == InitDensityScan /\ [][NextDensity]_vars

(***************************************************************************)
(* The IPC channel: the calls of the agent (core.py 919-926, 1034-1129)    *)
(* against the listener loop of the Automation Server (server.py 286-329). *)
(* The agent makes one call at a time.  Only the handling of a request     *)
(* takes time, counted in seconds.                                         *)
(***************************************************************************)
\* The most IPC calls of a behaviour.
MaxCalls == 2

\* The most seconds the handling of a request takes.
MaxBusy == 4

\* The requests: the verbs of the clients of core.py with the handle they
\* carry, and ping, shutdown and a verb the server does not know.
IpcRequests ==
    {[verb |-> "analyze", root |-> r] : r \in {None, 10}}
      \cup {[verb |-> v, root |-> 10] : v \in {"check_handle", "close_window", "interact"}}
      \cup {[verb |-> v, root |-> None] :
              v \in {"get_window_list", "get_active_window", "ping", "shutdown", "unknown"}}

\* The seconds a client polls for the response (core.py 922, 1039, 1071,
\* 1086, 1112, 1125); 120 stands for a client that waits without limit.
PollTimeout(verb, root) ==
    CASE verb = "analyze" -> IF root # None THEN 2 ELSE 120
      [] verb = "interact" -> 15
      [] verb \in {"get_window_list", "get_active_window", "close_window"} -> 2
      [] verb = "check_handle" -> 1
      [] OTHER -> 120

\* The seconds the handling of a request can take: a scan or an interaction
\* any time, the other verbs none.
Durations(verb) == IF verb \in {"analyze", "interact"} THEN 0..MaxBusy ELSE {0}

\* The verbs whose handling can raise in the listener loop: GetWindowRect
\* on a window that has just gone (server.py 304, 282) is not inside a try
\* of its own.
HandlerMayRaise(verb) == verb \in {"check_handle", "get_window_list"}

\* A variant of the dispatch that sends nothing for a verb it does not
\* know: C23_OneExchangePerConnection tells it from the code.
Responds_KnownOnly(verb) == verb # "unknown"

\* Every branch of the dispatch, the last else included, sends a response
\* (server.py 299-323).
Responds(verb) == TRUE

\* The response of the dispatch (server.py 299-323) to a request about
\* window 10.
ServerReply(verb, root, live) ==
    CASE verb = "analyze" ->
           IF root # None /\ ~live
           THEN IpcResponse("error", FALSE, "Target window handle invalid or closed")
           ELSE IpcResponse("success", FALSE, "")
      [] verb = "check_handle" -> IpcResponse("success", root # None /\ live, "")
      [] verb = "close_window" ->
           IF live THEN IpcResponse("success", FALSE, "")
           ELSE IpcResponse("error", FALSE, "Invalid window handle")
      [] verb = "get_active_window" ->
           IF live THEN IpcResponse("success", FALSE, "")
           ELSE IpcResponse("error", FALSE, "No active window found")
      [] verb = "interact" -> IpcResponse(IF live THEN "success" ELSE "error", FALSE, "")
      [] verb = "get_window_list" -> IpcResponse("success", FALSE, "")
      [] verb = "ping" -> IpcResponse("pong", FALSE, "")
      [] verb = "shutdown" -> IpcResponse("ok", FALSE, "")
      [] OTHER -> IpcResponse("error", FALSE, "Unknown command")

\* The call under way has returned as c.
IpcReturn(c) ==
    /\ ipc_call' = [c EXCEPT !.pc = "returned"]
    /\ ipc_done' = Append(ipc_done, [c EXCEPT !.pc = "returned"])

\* Client(...): the agent opens a connection for a request.  Without a
\* listener the connection is refused; otherwise the client waits in the
\* authentication handshake until the server accepts it.
ClientOpen ==
    /\ ipc_call.pc \in {"idle", "returned"}
    /\ Len(ipc_done) < MaxCalls
    /\ \E req \in IpcRequests :
          IF ipc_srv.pc = "stopped"
          THEN IpcReturn([IpcCall(Len(ipc_done) + 1, req.verb, req.root, "returned", FALSE)
                            EXCEPT !.outcome = "refused"])
          ELSE /\ ipc_call' = IpcCall(Len(ipc_done) + 1, req.verb, req.root, "connecting",
                                      ipc_srv.pc # "accept")
               /\ UNCHANGED ipc_done
    /\ UNCHANGED <<ipcRest, ipc_live, ipc_conns, ipc_srv>>

\* listener.accept() (server.py 294): the server takes the waiting
\* connection.
ServerAccept ==
    /\ ipc_srv.pc = "accept"
    /\ ipc_call.pc = "connecting"
    /\ ipc_conns' = Append(ipc_conns, IpcConn(ipc_call.id))
    /\ ipc_srv' = [pc |-> "recv", conn |-> Len(ipc_conns) + 1, busy |-> 0]
    /\ ipc_call' = [ipc_call EXCEPT !.pc = "connected"]
    /\ UNCHANGED <<ipcRest, ipc_live, ipc_done>>

\* conn.send of the client: its one request.
ClientSend ==
    /\ ipc_call.pc = "connected"
    /\ ipc_call' = [ipc_call EXCEPT !.pc = "polling", !.sent = @ + 1]
    /\ UNCHANGED <<ipcRest, ipc_live, ipc_done,
                   ipc_conns, ipc_srv>>

\* conn.recv() of the server (server.py 295): it reads the request and
\* starts to handle it.
ServerRecv ==
    /\ ipc_srv.pc = "recv"
    /\ ipc_call.id = ipc_conns[ipc_srv.conn].call
    /\ ipc_call.sent > 0
    /\ \E busy \in Durations(ipc_call.verb) :
          ipc_srv' = [ipc_srv EXCEPT !.pc = "handle", !.busy = busy]
    /\ ipc_conns' = [ipc_conns EXCEPT ![ipc_srv.conn] =
                        [@ EXCEPT !.verb = ipc_call.verb, !.root = ipc_call.root,
                                  !.reads = @ + 1]]
    /\ UNCHANGED <<ipcRest, ipc_live, ipc_call,
                   ipc_done>>

\* A second passes while the server handles a request; a client that polls
\* does not wait beyond its timeout.
Tick ==
    /\ ipc_srv.pc = "handle"
    /\ ipc_srv.busy > 0
    /\ ipc_call.pc \in {"idle", "returned", "connecting", "polling"}
    /\ ipc_call.pc = "polling" => ipc_call.polled < PollTimeout(ipc_call.verb, ipc_call.root)
    /\ ipc_srv' = [ipc_srv EXCEPT !.busy = @ - 1]
    /\ ipc_call' = CASE ipc_call.pc = "polling" ->
                          [ipc_call EXCEPT !.polled = @ + 1, !.waited = @ + 1]
                     [] ipc_call.pc = "connecting" -> [ipc_call EXCEPT !.waited = @ + 1]
                     [] OTHER -> ipc_call
    /\ UNCHANGED <<ipcRest, ipc_live, ipc_done,
                   ipc_conns>>

\* conn.poll(timeout) gives False: the client closes its connection and
\* returns.
ClientTimeout ==
    /\ ipc_call.pc = "polling"
    /\ ipc_call.polled >= PollTimeout(ipc_call.verb, ipc_call.root)
    /\ IpcReturn([ipc_call EXCEPT !.outcome = "timeout"])
    /\ UNCHANGED <<ipcRest, ipc_live, ipc_conns,
                   ipc_srv>>

\* The handling ends (server.py 296-326).  It raises, the connection is
\* closed without a response and the client's recv raises EOFError; or the
\* server sends the response of the verb: to the client that polls, or to a
\* client that has gone, where the send is lost or raises.  After the
\* response to shutdown the server returns; after everything else, an
\* exception included, it accepts again.
ServerRespond ==
    /\ ipc_srv.pc = "handle"
    /\ ipc_srv.busy = 0
    /\ LET conn == ipc_conns[ipc_srv.conn]
           present == ipc_call.id = conn.call /\ ipc_call.pc = "polling"
           response == ServerReply(conn.verb, conn.root, ipc_live)
       IN \E raised \in (IF HandlerMayRaise(conn.verb) THEN BOOLEAN ELSE {FALSE}),
             broken \in (IF present THEN {FALSE} ELSE BOOLEAN) :
             IF raised \/ ~Responds(conn.verb)
             THEN /\ ipc_conns' = [ipc_conns EXCEPT ![ipc_srv.conn] =
                                      [@ EXCEPT !.failed = raised]]
                  /\ ipc_srv' = [ipc_srv EXCEPT !.pc = "accept"]
                  /\ IF present
                     THEN IpcReturn([ipc_call EXCEPT !.outcome = "closed"])
                     ELSE UNCHANGED <<ipc_call, ipc_done>>
             ELSE IF broken
             THEN /\ ipc_conns' = [ipc_conns EXCEPT ![ipc_srv.conn] =
                                      [@ EXCEPT !.failed = TRUE]]
                  /\ ipc_srv' = [ipc_srv EXCEPT !.pc = "accept"]
                  /\ UNCHANGED <<ipc_call, ipc_done>>
             ELSE /\ ipc_conns' = [ipc_conns EXCEPT ![ipc_srv.conn] =
                                      [@ EXCEPT !.sends = @ + 1, !.response = response]]
                  /\ ipc_srv' = [ipc_srv EXCEPT !.pc = IF conn.verb = "shutdown"
                                                       THEN "stopped" ELSE "accept"]
                  /\ IF present
                     THEN IpcReturn([ipc_call EXCEPT !.outcome = "response",
                                                     !.received = @ + 1,
                                                     !.value = response])
                     ELSE UNCHANGED <<ipc_call, ipc_done>>
    /\ UNCHANGED <<ipcRest, ipc_live>>

NextIpc ==
    \/ ClientOpen
    \/ ServerAccept
    \/ ClientSend
    \/ ServerRecv
    \/ Tick
    \/ ClientTimeout
    \/ ServerRespond

InitIpcChannel ==
    /\ InitLoop
    /\ InitExec
    /\ InitAgent
    /\ InitPerception
    /\ InitIpc
    /\ InitObj
    /\ InitApi
    /\ InitPlan
    /\ InitType
    /\ InitFuse
    /\ desktop = 0
    /\ handles = {}
    /\ ipc_live \in BOOLEAN

SpecIpc == InitIpcChannel /\ [][NextIpc]_vars

(***************************************************************************)
(* run_autonomous_loop (agent.py 475-543) with _run_executor_sprint        *)
(* (agent.py 651-961) as the loop of one objective: every external call    *)
(* returns its result or raises.                                           *)
(***************************************************************************)
\* run_autonomous_loop: max_phases.
max_phases == 15

\* _run_executor_sprint: max_steps.
max_steps == 25

\* The status of a plan (agent.py 500-523).
PlanStatuses == {"CONTINUE", "CODING_REQUEST", "COMPLETED", "FAILED"}

\* The while condition of run_autonomous_loop (agent.py 482).
PhaseGuard(running, phase) == running /\ phase < max_phases

\* A variant of the while condition of the sprint that admits one step
\* more: C27_Terminates tells it from the code.
SprintGuard_OneMore(active, running, step) == active /\ running /\ step <= max_steps

\* The while condition of _run_executor_sprint (agent.py 670).
SprintGuard(active, running, step) == active /\ running /\ step < max_steps

\* run_autonomous_loop up to its loop (agent.py 475-479).  (A call while
\* is_running is set returns at once and is no objective.  No application
\* is active here, so reset() leaves the active handle None.)
ObjStart ==
    /\ obj_pc \in {"idle", "done"}
    /\ ~is_running
    /\ is_running' = TRUE
    /\ obj_pc' = "while"
    /\ current_phase' = 0
    /\ consults' = 0
    /\ step_safety' = 0
    /\ sprint_active' = FALSE
    /\ sprint_errors' = FALSE
    /\ obj_events' = {}
    /\ obj_fatal' = {}
    /\ obj_exit' = ""
    /\ step_count' = 0
    /\ current_sprint_plan' = <<>>
    /\ UNCHANGED objRest

\* The while condition (agent.py 482-483): the next phase, or the end of
\* the loop by abort or by the limit of the phases.
ObjWhile ==
    /\ obj_pc = "while"
    /\ IF PhaseGuard(is_running, current_phase)
       THEN /\ current_phase' = current_phase + 1
            /\ obj_pc' = "capture"
            /\ UNCHANGED obj_exit
       ELSE /\ obj_exit' = IF ~is_running THEN "abort" ELSE "limit"
            /\ obj_pc' = "finally"
            /\ UNCHANGED current_phase
    /\ UNCHANGED <<objRest, planVars, is_running, consults, step_safety, sprint_active, sprint_errors,
                   obj_events, obj_fatal>>

\* The capture of the phase (agent.py 487-489).  _capture_state returns a
\* snapshot also when the Automation Server cannot be reached for the scan
\* of the desktop: _trigger_ipc_analysis gives [] (core.py 1052-1055).  What
\* follows it can raise.
ObjCapture ==
    /\ obj_pc = "capture"
    /\ \E reachable \in BOOLEAN, raised \in BOOLEAN :
          /\ obj_fatal' = obj_fatal \cup (IF reachable THEN {} ELSE {"unreachable"})
                                    \cup (IF raised THEN {"exception"} ELSE {})
          /\ obj_pc' = IF raised THEN "except" ELSE "consult"
    /\ UNCHANGED <<objRest, planVars, is_running, current_phase, consults, step_safety, sprint_active,
                   sprint_errors, obj_events, obj_exit>>

\* _consult_manager and what the loop does with the plan (agent.py
\* 495-530): the coder and the next phase, the end of the objective, or the
\* start of a sprint.
ObjConsult ==
    /\ obj_pc = "consult"
    /\ consults' = consults + 1
    /\ \E status \in PlanStatuses, raised \in BOOLEAN, plan \in SprintPlans :
          IF raised
          THEN /\ obj_fatal' = obj_fatal \cup {"exception"}
               /\ obj_pc' = "except"
               /\ UNCHANGED <<obj_events, obj_exit, step_safety, sprint_active, sprint_errors,
                              current_sprint_plan>>
          ELSE /\ obj_pc' = CASE status = "CODING_REQUEST" -> "while"
                              [] status = "CONTINUE" -> "sprint"
                              [] OTHER -> "finally"
               /\ obj_events' = CASE status = "COMPLETED" -> obj_events \cup {"success"}
                                  [] status = "FAILED" -> obj_events \cup {"error"}
                                  [] OTHER -> obj_events
               /\ obj_exit' = CASE status = "COMPLETED" -> "completed"
                                [] status = "FAILED" -> "failed"
                                [] OTHER -> obj_exit
               /\ step_safety' = IF status = "CONTINUE" THEN 0 ELSE step_safety
               /\ sprint_active' = (status = "CONTINUE")
               /\ sprint_errors' = (status = "CONTINUE")
               /\ current_sprint_plan' = IF status = "CONTINUE" THEN plan
                                         ELSE current_sprint_plan
               /\ UNCHANGED obj_fatal
    /\ UNCHANGED <<objRest, step_count, is_running, current_phase>>

\* The while condition of the sprint (agent.py 670-671): the next cycle, or
\* the sprint returns its result to the loop of the objective.
SprintWhile ==
    /\ obj_pc = "sprint"
    /\ IF SprintGuard(sprint_active, is_running, step_safety)
       THEN /\ step_safety' = step_safety + 1
            /\ obj_pc' = "cycle"
       ELSE /\ obj_pc' = "while"
            /\ UNCHANGED step_safety
    /\ UNCHANGED <<objRest, planVars, is_running, current_phase, consults, sprint_active, sprint_errors,
                   obj_events, obj_fatal, obj_exit>>

\* A cycle of the sprint (agent.py 673-959): its capture fails and the
\* sprint breaks off; the decision or the dispatch raises, which is caught
\* and the sprint goes on; finish_sprint ends the sprint; or the batch is
\* executed.
SprintCycle ==
    /\ obj_pc = "cycle"
    /\ \E outcome \in {"capture_error", "error", "finish", "executed"}, reachable \in BOOLEAN :
          /\ obj_pc' = IF outcome = "capture_error" THEN "while" ELSE "sprint"
          /\ sprint_active' = (outcome # "finish")
          /\ sprint_errors' = (sprint_errors /\ outcome = "error")
          /\ obj_fatal' = obj_fatal \cup (IF reachable THEN {} ELSE {"unreachable"})
    /\ UNCHANGED <<objRest, planVars, is_running, current_phase, consults, step_safety, obj_events,
                   obj_exit>>

\* POST /stop (main.py 124-128) while the objective runs.
ObjAbort ==
    /\ obj_pc \notin {"idle", "done"}
    /\ is_running
    /\ is_running' = FALSE
    /\ UNCHANGED <<objRest, planVars, objVars>>

\* except Exception (agent.py 538-540).
ObjExcept ==
    /\ obj_pc = "except"
    /\ obj_events' = obj_events \cup {"error"}
    /\ obj_exit' = "exception"
    /\ obj_pc' = "finally"
    /\ UNCHANGED <<objRest, planVars, is_running, current_phase, consults, step_safety, sprint_active,
                   sprint_errors, obj_fatal>>

\* finally (agent.py 541-543).
ObjFinally ==
    /\ obj_pc = "finally"
    /\ is_running' = FALSE
    /\ obj_events' = obj_events \cup {"disconnected"}
    /\ obj_pc' = "done"
    /\ UNCHANGED <<objRest, planVars, current_phase, consults, step_safety, sprint_active, sprint_errors,
                   obj_fatal, obj_exit>>

\* The steps of the loop itself.
ObjStep ==
    \/ ObjWhile
    \/ ObjCapture
    \/ ObjConsult
    \/ SprintWhile
    \/ SprintCycle
    \/ ObjExcept
    \/ ObjFinally

NextObjective ==
    \/ ObjStart
    \/ ObjStep
    \/ ObjAbort

InitObjective ==
    /\ InitLoop
    /\ InitExec
    /\ InitAgent
    /\ InitPerception
    /\ InitIpc
    /\ ipc_live = TRUE
    /\ InitObj
    /\ InitApi
    /\ InitPlan
    /\ InitType
    /\ InitFuse
    /\ desktop = 0
    /\ handles = {}

SpecObjective == InitObjective /\ [][NextObjective]_vars

\* The same under the assumption of C27: every external call returns, so
\* the loop takes its next step.
SpecObjectiveLive == SpecObjective /\ WF_vars(ObjStep)

(***************************************************************************)
(* send_chat_message (api.py 113-165).  The message of an exception is a   *)
(* sequence of characters, so that lower() and the substring tests are     *)
(* computed on it.                                                         *)
(***************************************************************************)
\* The largest max_retries of a call.
MaxRetries == 3

\* send_chat_message: retry_delay.
retry_delay == 2

\* str.lower() on the characters of the messages.
LowerChar(c) ==
    CASE c = "O" -> "o"
      [] c = "V" -> "v"
      [] c = "E" -> "e"
      [] c = "R" -> "r"
      [] c = "L" -> "l"
      [] c = "A" -> "a"
      [] c = "D" -> "d"
      [] c = "B" -> "b"
      [] OTHER -> c

LowerSeq(m) == [i \in 1..Len(m) |-> LowerChar(m[i])]

\* needle in m.
InSeq(needle, m) ==
    \E i \in 1..(Len(m) - Len(needle) + 1) : SubSeq(m, i, i + Len(needle) - 1) = needle

\* The messages of the exceptions of send_message and _parse_response.
ErrorMessages ==
    { <<"5", "0", "3", " ", "b", "u", "s", "y">>,
      <<"4", "2", "9">>,
      <<"O", "v", "e", "r", "l", "o", "a", "d", "e", "d">>,
      <<"4", "0", "0", " ", "B", "a", "d">>,
      <<"5", "0", "0">>,
      <<"l", "o", "a", "d">> }

\* is_transient (api.py 150-151).
IsTransient(e) ==
    LET error_msg == LowerSeq(e) IN
    \/ InSeq(<<"5", "0", "3">>, error_msg)
    \/ InSeq(<<"4", "2", "9">>, error_msg)
    \/ InSeq(<<"o", "v", "e", "r", "l", "o", "a", "d", "e", "d">>, error_msg)

\* A variant of the wait that grows by retry_delay with each attempt:
\* C28_Retry tells it from the code.
WaitTime_Linear(n) == retry_delay * (n + 1)

\* wait_time (api.py 154).
WaitTime(n) == retry_delay * (2 ^ n)

\* send_chat_message is called (api.py 113, 130-132).
SendChatMessage ==
    /\ api_pc \in {"idle", "done"}
    /\ \E r \in 0..MaxRetries : max_retries' = r
    /\ attempt' = 0
    /\ api_sent' = 0
    /\ api_errors' = <<>>
    /\ api_waits' = <<>>
    /\ api_result' = NoResult
    /\ api_pc' = "try"
    /\ UNCHANGED apiRest

\* One pass of the for loop (api.py 132-165): send_message answers and the
\* parsed response is returned, or an exception is caught: a transient one
\* with attempts left is slept on, any other returns the FAILED plan.
SendAttempt ==
    /\ api_pc = "try"
    /\ attempt <= max_retries
    /\ api_sent' = api_sent + 1
    /\ \/ /\ api_result' = ParsedResponse
          /\ api_pc' = "done"
          /\ UNCHANGED <<api_errors, api_waits>>
       \/ \E e \in ErrorMessages :
             /\ api_errors' = Append(api_errors, e)
             /\ IF IsTransient(e) /\ attempt < max_retries
                THEN /\ api_waits' = Append(api_waits, WaitTime(attempt))
                     /\ api_pc' = "sleep"
                     /\ UNCHANGED api_result
                ELSE /\ api_result' = FailedPlan
                     /\ api_pc' = "done"
                     /\ UNCHANGED api_waits
    /\ UNCHANGED <<apiRest, max_retries, attempt>>

\* time.sleep returns and the loop goes to its next attempt (api.py
\* 155-156).
SendRetry ==
    /\ api_pc = "sleep"
    /\ attempt' = attempt + 1
    /\ api_pc' = "try"
    /\ UNCHANGED <<apiRest, max_retries, api_sent, api_errors, api_waits, api_result>>

NextApi ==
    \/ SendChatMessage
    \/ SendAttempt
    \/ SendRetry

InitApiCall ==
    /\ InitLoop
    /\ InitExec
    /\ InitAgent
    /\ InitPerception
    /\ InitIpc
    /\ ipc_live = TRUE
    /\ InitObj
    /\ InitApi
    /\ InitPlan
    /\ InitType
    /\ InitFuse
    /\ desktop = 0
    /\ handles = {}

SpecApi == InitApiCall /\ [][NextApi]_vars

(***************************************************************************)
(* The type branch of execute_os_action (core.py 764-804), step by step:   *)
(* what it does is recorded in type_trace.                                 *)
(***************************************************************************)
\* pyautogui.click at the centre of the element's rectangle.
CoordinateClick(element_id) ==
    [op |-> "click", element |-> element_id, interaction_type |-> "", text |-> FALSE,
     ok |-> TRUE]

\* pyautogui.write of the text.
DirectWrite ==
    [op |-> "write", element |-> NoId, interaction_type |-> "", text |-> TRUE, ok |-> TRUE]

\* _trigger_ipc_interaction for the element (core.py 1058-1079): the
\* payload names the target, interaction_type and whether it carries the
\* text; ok is what the call returned.
InteractRequest(element_id, interaction_type, text, ok) ==
    [op |-> "interact", element |-> element_id, interaction_type |-> interaction_type,
     text |-> text, ok |-> ok]

\* A variant of the branch that sends the type request at once: C30_TypeOrder
\* tells it from the code.
TypeBranch_NoFocusClick(element_id, elements) ==
    IF element_id = NoId THEN "write"
    ELSE CASE elements[element_id] = "ocr" -> "ocr_click"
           [] elements[element_id] = "uia" -> "interact_type"
           [] OTHER -> "write"

\* Where the type branch goes for the element id (core.py 768-785).
TypeBranch(element_id, elements) ==
    IF element_id = NoId THEN "write"
    ELSE CASE elements[element_id] = "ocr" -> "ocr_click"
           [] elements[element_id] = "uia" -> "interact_click"
           [] OTHER -> "write"

\* execute_os_action is called with a type command (core.py 764-785).
TypeDispatch ==
    /\ type_pc \in {"ready", "done"}
    /\ \E elements \in [ElementIds -> ElementKinds], element_id \in ElementIds \cup {NoId} :
          /\ all_elements' = elements
          /\ call' = [NoCall EXCEPT !.tool = "type_text", !.element_id = element_id]
          /\ type_pc' = TypeBranch(element_id, elements)
    /\ type_trace' = <<>>
    /\ UNCHANGED typeRest

\* The click that focuses a recognised text (core.py 772-777).
TypeOcrClick ==
    /\ type_pc = "ocr_click"
    /\ type_trace' = Append(type_trace, CoordinateClick(call.element_id))
    /\ type_pc' = "ocr_write"
    /\ UNCHANGED <<typeRest, all_elements, call>>

\* pyautogui.write (core.py 779, 784, 804).
TypeWrite ==
    /\ type_pc \in {"ocr_write", "write"}
    /\ type_trace' = Append(type_trace, DirectWrite)
    /\ type_pc' = "done"
    /\ UNCHANGED <<typeRest, all_elements, call>>

\* The click request (core.py 790-795): _trigger_ipc_interaction returns
\* True or False and never raises.
TypeInteractClick ==
    /\ type_pc = "interact_click"
    /\ \E ok \in BOOLEAN :
          type_trace' = Append(type_trace, InteractRequest(call.element_id, "click", FALSE, ok))
    /\ type_pc' = "interact_type"
    /\ UNCHANGED <<typeRest, all_elements, call>>

\* The type request (core.py 798-802).
TypeInteractType ==
    /\ type_pc = "interact_type"
    /\ \E ok \in BOOLEAN :
          type_trace' = Append(type_trace, InteractRequest(call.element_id, "type", TRUE, ok))
    /\ type_pc' = "done"
    /\ UNCHANGED <<typeRest, all_elements, call>>

NextType ==
    \/ TypeDispatch
    \/ TypeOcrClick
    \/ TypeWrite
    \/ TypeInteractClick
    \/ TypeInteractType

InitTypeDispatch ==
    /\ InitLoop
    /\ InitExec
    /\ InitAgent
    /\ InitPerception
    /\ InitService
    /\ desktop = 0
    /\ handles = {}

SpecType == InitTypeDispatch /\ [][NextType]_vars

(***************************************************************************)
(* The fusion of observe_os_state (core.py 236-308) as a function of the   *)
(* scan and of the texts recognised.                                       *)
(***************************************************************************)
\* A scan, the handle it was scoped to and the boxes of the recognition.
FuseInputs ==
    {[raw_elements |-> data, focus_handle |-> h, boxes |-> boxes] :
        h \in {None, 10}, data \in Scans({10}), boxes \in OcrResults}

\* observe_os_state fuses the scan with the texts.
Fuse ==
    /\ fuse_pc = "ready"
    /\ fuse_out' = FuseElements(fuse_in.raw_elements, fuse_in.focus_handle, fuse_in.boxes)
    /\ fuse_pc' = "done"
    /\ UNCHANGED <<focusVars, loopVars, execVars, perceptionVars, ipcVars, objVars, apiVars,
                   planVars, typeVars, fuse_in>>

NextFuse == Fuse

InitFusion ==
    /\ InitLoop
    /\ InitExec
    /\ InitAgent
    /\ InitPerception
    /\ InitIpc
    /\ ipc_live = TRUE
    /\ InitObj
    /\ InitApi
    /\ InitPlan
    /\ InitType
    /\ desktop = 0
    /\ handles = {}
    /\ fuse_in \in FuseInputs
    /\ fuse_out = <<>>
    /\ fuse_pc = "ready"

SpecFuse == InitFusion /\ [][NextFuse]_vars

Next ==
    \/ StartObjective
    \/ ObjectiveEnd
    \/ CaptureState
    \/ ConsultCoder
    \/ SprintStart
    \/ SprintEnd
    \/ Reconcile
    \/ DispatchLaunchBegin
    \/ DispatchLaunchEnd
    \/ DispatchClose
    \/ DispatchFocus
    \/ DispatchOther
    \/ BatchEnd

Init == InitOn(MaxHandle)

Spec == Init /\ [][Next]_vars

\* The control loop with the IPC requests that fail although the windows
\* they ask for are there.
NextFaults ==
    \/ Next
    \/ ReconcileFailed
    \/ CaptureStateFailed

SpecFaults == Init /\ [][NextFaults]_vars

\* The control loop when the decision function issues no launch_app,
\* focus_window or close_window.
NextFocus ==
    \/ StartObjective
    \/ ObjectiveEnd
    \/ CaptureState
    \/ ConsultCoder
    \/ SprintStart
    \/ SprintEnd
    \/ Reconcile
    \/ DispatchOther
    \/ BatchEnd

InitFocus == InitOn(MaxFocusHandle)

SpecFocus == InitFocus /\ [][NextFocus]_vars

(***************************************************************************)
(* Properties of the focus state                                           *)
(***************************************************************************)
Top(stack) == stack[Len(stack)]

StackHandles(stack) == {stack[i][2] : i \in 1..Len(stack)}

\* C2: after any sequence of popup detections (updateFocus), stale-handle
\* recoveries and the capture validation of every cycle, the active handle,
\* when it is not None, is the handle of the top entry of the focus stack.
\* (Stated as the claim has it; the code violates it under SpecFocus.)
C2_ActiveHandleIsTop ==
    focus_handle # None => (focus_stack # <<>> /\ Top(focus_stack)[2] = focus_handle)

\* C2, the failing state: two windows titled "A" were focused one after the
\* other, the second left the window list while it still exists, the
\* recovery restored the first and the capture validation put the second
\* back from known_windows.
C2_Failing ==
    /\ pc = "dispatch"
    /\ focus_stack = << <<"A", 1>> >>
    /\ active_app_name = "A"
    /\ known_windows["A"] = 2
    /\ focus_handle = 2

C4_ActiveNoneOrTop ==
    \/ focus_handle = None
    \/ \E i \in 1..Len(focus_stack) : i = Len(focus_stack) /\ focus_stack[i][2] = focus_handle

\* C4, the failing state: launch_app registered the new window and named it
\* active without pushing it, and the next capture took its handle.
C4_Failing ==
    /\ pc = "dispatch"
    /\ out.cmd = ""
    /\ focus_stack = <<>>
    /\ active_app_name \in LaunchNames
    /\ focus_handle # None

\* C5: when the stale-handle recovery runs, it pops entries until the new
\* top of the stack is an entry whose handle is in the live set of the cycle;
\* that entry becomes the active (name, handle) and is brought to the
\* foreground.  When no remaining entry is live the stack ends empty and the
\* active name and handle are None.
C5_StaleRecovery ==
    [][(pc = "cycle" /\ pc' = "capture" /\ out'.stale) =>
         LET live == window_snapshot'
             below == {k \in 1..(Len(focus_stack) - 1) : focus_stack[k][2] \in live}
         IN IF below # {}
            THEN /\ focus_stack' = SubSeq(focus_stack, 1, Max(below))
                 /\ active_app_name' = focus_stack[Max(below)][1]
                 /\ focus_handle' = focus_stack[Max(below)][2]
                 /\ out'.fg = <<focus_stack[Max(below)][2]>>
            ELSE /\ focus_stack' = <<>>
                 /\ active_app_name' = NoApp
                 /\ focus_handle' = None
                 /\ out'.fg = <<>>]_vars

\* C5, its example: from the stack [(A,1), (B,2), (C,3)] with handle 3
\* active and the live set {1, 2}, the recovery popped one entry and left
\* (B, 2) active and foregrounded.
C5_Witness ==
    /\ pc = "capture"
    /\ out.stale
    /\ out.popped = 1
    /\ window_snapshot = {1, 2}
    /\ focus_stack = << <<"A", 1>>, <<"B", 2>> >>
    /\ active_app_name = "B"
    /\ focus_handle = 2
    /\ out.fg = <<2>>

\* C6: the popup detection runs once per cycle, before the capture of the
\* cycle.  It invokes updateFocus for the first handle of the window list,
\* in list order, that is not in the snapshot and whose window is more than
\* 20 wide and more than 20 high with a title that is non-blank after
\* trimming and not ignored, and for no other; when it fires, the
\* stale-handle recovery does not run in that cycle.
C6_PopupDetection ==
    [][/\ pc' = "capture" => pc = "cycle"
       /\ (pc = "capture" /\ pc' # pc) => (pc' = "dispatch" /\ out'.popup = None)
       /\ (pc = "cycle" /\ pc' = "capture") =>
            LET lst == current_win_list'
                Qualifies(i) ==
                    /\ lst[i] \notin window_snapshot
                    /\ WindowOf(lst[i]).width > 20
                    /\ WindowOf(lst[i]).height > 20
                    /\ WindowOf(lst[i]).title \notin {"", " "}
                    /\ WindowOf(lst[i]).title \notin ignored_titles
            IN /\ \A i \in 1..Len(lst) :
                     (Qualifies(i) /\ \A j \in 1..(i - 1) : ~Qualifies(j)) =>
                        \A h \in {lst[i]} : \A title \in {WindowOf(h).title} :
                           /\ out'.popup = h
                           /\ ~out'.stale
                           /\ out'.fg = <<h>>
                           /\ focus_stack' = Append(SelectSeq(focus_stack, LAMBDA x : x[2] # h),
                                                    <<title, h>>)
                           /\ known_windows' = [known_windows EXCEPT ![title] = h]
                           /\ active_app_name' = title
                           /\ focus_handle' = h
               /\ (\A i \in 1..Len(lst) : ~Qualifies(i)) =>
                     /\ out'.popup = None
                     /\ known_windows' = known_windows
                     /\ Len(focus_stack') <= Len(focus_stack)
                     /\ focus_stack' = SubSeq(focus_stack, 1, Len(focus_stack'))]_vars

\* C6, its case: on the desktop whose first two windows are 20 wide and
\* 20 high, the detection passed over them and focused the third.
C6_Witness ==
    /\ pc = "capture"
    /\ desktop = 4
    /\ current_win_list = <<1, 2, 3>>
    /\ out.popup = 3
    /\ focus_handle = 3

\* C10: CloseWindow with no active handle returns an error and sends no
\* close request.  With an active handle it sends a close_window request
\* for that handle, and when the close succeeds then afterwards no key of
\* known_windows maps to the closed handle, the stack has no entry with it,
\* and the active handle and name are None.  (Stated as the claim has it;
\* the code violates it under Spec.)
C10_CloseWindow ==
    [][(pc = "dispatch" /\ out'.cmd = "close_window" /\ out' # out) =>
         IF focus_handle = None
         THEN out'.res = "error" /\ out'.close = None
         ELSE /\ out'.close = focus_handle
              /\ out'.res = "success" =>
                    /\ \A k \in AppNames : known_windows'[k] # focus_handle
                    /\ focus_handle \notin StackHandles(focus_stack')
                    /\ focus_handle' = None
                    /\ active_app_name' = NoApp]_vars

\* C10, the failing state: the close of a handle succeeded and a key of
\* known_windows still maps to it.
C10_Failing ==
    /\ out.cmd = "close_window"
    /\ out.res = "success"
    /\ \E k \in AppNames : known_windows[k] = out.close

(***************************************************************************)
(* Properties of the event loop                                            *)
(***************************************************************************)
\* C1: for every interleaving of /chat and /stop requests, at most one
\* run_autonomous_loop is executing at any time.  (Stated as the claim has
\* it; the code violates it under SpecLoop.)
C1_AtMostOneLoop == Cardinality({t \in Tasks : InLoop(t)}) <= 1

\* C1, the failing state: after /chat, /stop, /chat two tasks are inside the
\* loop, each suspended after a command of its own batch, with the flag set.
C1_Failing ==
    /\ is_running
    /\ \E t, u \in Tasks : t # u /\ task_pc[t] = "cmd_sleep" /\ task_pc[u] = "cmd_sleep"

\* C7: once is_running has been set to False by /stop, no further command
\* of the current batch is executed: a task that comes back from the sleep
\* after a command with the flag cleared by /stop executes no command.
\* (Stated as the claim has it; the code violates it under SpecLoop.)
C7_NoCommandAfterStop ==
    [][\A t \in Tasks :
          (task_pc[t] = "cmd_sleep" /\ ~is_running /\ flag_writer = "stop")
             => cmd_count'[t] = cmd_count[t]]_vars

(***************************************************************************)
(* Properties of the dispatch of a call                                    *)
(***************************************************************************)
\* C8: a command that cannot be resolved (the click family or Type with an
\* element id the capture does not hold, LaunchApp with an empty name or a
\* name that resolves to nothing) returns a result of class Error rather
\* than raising, and the feedback for the next decision cycle reports the
\* error.  (Stated as the claim has it; the code violates it under SpecExec.)
C8_UnresolvableIsError ==
    (/\ exec_pc = "done"
     /\ \/ /\ call.tool \in ClickTools \cup {"type_text"}
           /\ call.element_id # NoId
           /\ all_elements[call.element_id] = "absent"
        \/ /\ call.tool = "launch_app"
           /\ (Strip(Lower(call.app_name)) = "" \/ call.target_cmd = "literal"))
      => (result.status = "error" /\ last_tool_output = "ERROR")

\* C8, a failing state: launch_app of the name "zzz", which is no alias, no
\* entry of the application index and no part of one, returned a success.
C8_Failing ==
    /\ exec_pc = "done"
    /\ call.tool = "launch_app"
    /\ call.app_name = "zzz"
    /\ call.target_cmd = "literal"
    /\ result.status = "success"

\* C9: LaunchApp returns Success with a handle when, within 20 polls, a
\* handle that was not in the window list before the launch appears with a
\* window more than 50 wide and more than 50 high: a highest-scoring such
\* handle of the first poll that has one.  After 20 polls without one it
\* returns Success with no handle, never Error.
C9_LaunchResult ==
    [][(exec_pc = "polling" /\ attempts' # attempts) =>
         LET lst == windows_after'
             appeared == {h \in Range(lst) \ handles_before :
                            WindowOf(h).width > 50 /\ WindowOf(h).height > 50}
             Score(h) == LaunchScore(WindowOf(h), Strip(Lower(call.app_name)))
         IN /\ attempts' = attempts + 1
            /\ attempts' <= 20
            /\ IF appeared # {}
               THEN /\ exec_pc' = "done"
                    /\ result'.status = "success"
                    /\ result'.handle \in appeared
                    /\ \A g \in appeared : Score(result'.handle) >= Score(g)
               ELSE IF attempts' = 20
                    THEN exec_pc' = "done" /\ result' = Result("success", None)
                    ELSE exec_pc' = "polling" /\ result'.status = ""]_vars

\* C9, its example at the last poll: the windows 10 and 11 were there
\* before the launch, the 20th poll is the first to list the 200 x 300
\* window 12, titled "calculator", and the launch returns success with 12.
C9_Witness ==
    /\ exec_pc = "done"
    /\ Strip(Lower(call.app_name)) = "calc"
    /\ handles_before = {10, 11}
    /\ attempts = 20
    /\ 12 \in Range(windows_after)
    /\ result = Result("success", 12)

\* C11: a wait command issued by the decision function suspends the batch
\* for the requested seconds clamped to [1, 30]: a value below 1 waits 1
\* second and a value above 30 waits 30 seconds.  (Stated as the claim has
\* it; the code violates it under SpecExec.)
C11_WaitClamped ==
    (exec_pc = "done" /\ call.tool = "wait" /\ call.seconds # <<>>) =>
        slept = (IF call.seconds[1] < 1 THEN 1
                 ELSE IF call.seconds[1] > 30 THEN 30
                 ELSE call.seconds[1])

\* C11, a failing case: wait(100) suspended the batch for 100 seconds.
C11_Failing ==
    /\ exec_pc = "done"
    /\ call.tool = "wait"
    /\ call.seconds = <<100>>
    /\ slept = 100

\* The analyze request a finished capture sent first was scoped to a window.
ScopedCapture ==
    cap_pc = "returned" /\ cap_log.requests # <<>> /\ cap_log.requests[1] # None

\* The analyze request a finished capture sent first was for the desktop.
FullCapture ==
    cap_pc = "returned" /\ cap_log.requests # <<>> /\ cap_log.requests[1] = None

\* C12: a scoped analyze request without a response within its timeout
\* surfaces to its caller as HandleInvalid; a full-desktop analyze request
\* that times out or finds no connection raises nothing and yields no
\* structural element for the cycle, whose capture goes on with the grab.
C12_AnalyzeTimeout ==
    /\ (ScopedCapture /\ cap_log.answer = NoResponse) => cap_log.raised = "HandleInvalid"
    /\ (FullCapture /\ cap_log.answer \in {NoResponse, NoConnection}) =>
          /\ cap_log.raised = ""
          /\ captured.img.kind = "screenshot"
          /\ \A i \in 1..Len(captured.elements) : captured.elements[i].type = "OCR_TEXT"

\* C12, its case: the analyze scoped to window 10 got no response, and
\* observe_os_state raised HandleInvalid.
C12_Witness ==
    /\ ScopedCapture
    /\ cap_log.requests = <<10>>
    /\ cap_log.answer = NoResponse
    /\ cap_log.raised = "HandleInvalid"

\* C13: when the server answers a scoped analyze for a window that no
\* longer exists, the client raises HandleInvalid and returns no empty
\* element list.  (Stated as the claim has it; the code violates it under
\* SpecCapture.)
C13_DeadWindowIsHandleInvalid ==
    (ScopedCapture
       /\ cap_log.answer = Response("error", "Target window handle invalid or closed", <<>>))
      => cap_log.raised = "HandleInvalid"

\* C13, a failing case: the server reported window 10 gone, the client
\* returned an empty list and the capture went on as for a live window
\* without elements.
C13_Failing ==
    /\ ScopedCapture
    /\ cap_log.requests = <<10>>
    /\ cap_log.answer = Response("error", "Target window handle invalid or closed", <<>>)
    /\ cap_log.raised = ""
    /\ captured.img.kind = "screenshot"
    /\ captured.elements = <<>>

\* C14: _capture_state never raises; it returns a snapshot whatever failed,
\* and when the grab or the scan raised, the snapshot is the blank
\* placeholder with no elements and offset (0, 0).
C14_CaptureNeverRaises ==
    /\ cap_pc # "raised"
    /\ cap_pc = "returned" =>
          IF cap_log.raised # ""
          THEN /\ captured.img = Image("blank", 800, 600)
               /\ captured.elements = <<>>
               /\ captured.offset = <<0, 0>>
          ELSE captured.img.kind = "screenshot"

\* C14, its case: the scoped scan raised HandleInvalid and the capture
\* returned the placeholder.
C14_Witness ==
    /\ cap_pc = "returned"
    /\ cap_log.raised = "HandleInvalid"
    /\ captured.img.kind = "blank"
    /\ captured.elements = <<>>

\* C15: when the scoped scan of a capture returns no elements or fails, the
\* same capture sends a full-desktop analyze before it returns.  (Stated as
\* the claim has it; the code violates it under SpecCapture.)
C15_FallbackToFullScan ==
    (ScopedCapture /\ cap_log.answer.data = <<>>) =>
        /\ Len(cap_log.requests) = 2
        /\ cap_log.requests[2] = None

\* C15, a failing case: the scan scoped to window 10 succeeded without
\* elements, and the capture returned after that one request.
C15_Failing ==
    /\ ScopedCapture
    /\ cap_log.answer = Response("success", "", <<>>)
    /\ cap_log.requests = <<10>>
    /\ captured.img.kind = "screenshot"

\* C16: after a scoped analyze reported HandleInvalid for the active
\* window, the capture returns (it does not raise) with the stale focus
\* cleared: the active handle and the active name are None, so that the
\* next capture scans the desktop.  (Stated as the claim has it; the code
\* violates it under SpecCapture.)
C16_HandleInvalidClearsFocus ==
    /\ cap_pc # "raised"
    /\ (ScopedCapture /\ cap_log.raised = "HandleInvalid") =>
          (focus_handle = None /\ active_app_name = NoApp)

\* C16, a failing case: the capture scoped to window 10 ended with
\* HandleInvalid and window 10 is still the focus.
C16_Failing ==
    /\ ScopedCapture
    /\ cap_log.raised = "HandleInvalid"
    /\ focus_handle = 10
    /\ active_app_name = "Oracle VM VirtualBox Manager"
    /\ known_windows["Oracle VM VirtualBox Manager"] = 10

C18_IdRanges ==
    cap_pc = "returned" =>
        \A i \in 1..Len(captured.elements) :
           IF captured.elements[i].type = "OCR_TEXT"
           THEN captured.elements[i].id >= 9000
           ELSE captured.elements[i].id < 9000

\* C18 as amended: every text element has an id of 9000 or more that is
\* above the id of every structural element of the snapshot, and every
\* structural id is below the number of elements the scan returned (so
\* below 9000 for scans of up to 9000 elements).
C18_TextAboveStructural ==
    cap_pc = "returned" =>
        \A i \in 1..Len(captured.elements) :
           IF captured.elements[i].type = "OCR_TEXT"
           THEN /\ captured.elements[i].id >= 9000
                /\ \A j \in 1..Len(captured.elements) :
                      captured.elements[j].type # "OCR_TEXT" =>
                         captured.elements[j].id < captured.elements[i].id
           ELSE /\ captured.elements[i].id >= 0
                /\ captured.elements[i].id < Len(cap_log.answer.data)

\* C18, its case: a scan of 9001 panes, whose last has id 9000, with a text
\* whose id is 9100.
C18_Witness ==
    /\ cap_pc = "returned"
    /\ \E i, j \in 1..Len(captured.elements) :
          /\ captured.elements[i].type = "Pane"
          /\ captured.elements[i].id = 9000
          /\ captured.elements[j].type = "OCR_TEXT"
          /\ captured.elements[j].id = 9100

\* The rectangle a fully contains the rectangle b.
Contains(a, b) == a[1] <= b[1] /\ a[2] <= b[2] /\ b[3] <= a[3] /\ b[4] <= a[4]

\* The rectangles a and b have no point in common.
Disjoint(a, b) == a[3] < b[1] \/ b[3] < a[1] \/ a[4] < b[2] \/ b[4] < a[2]

\* The positions a, b of the list passed to the filter hold an element A
\* that fully contains an element B of at most 20 % of its area.
SmallInsideLarge(a, b) ==
    /\ a # b
    /\ nested_in[a].absolute_rectangle # <<>>
    /\ nested_in[b].absolute_rectangle # <<>>
    /\ Contains(nested_in[a].absolute_rectangle, nested_in[b].absolute_rectangle)
    /\ 100 * GetArea(nested_in[b].absolute_rectangle)
         <= 20 * GetArea(nested_in[a].absolute_rectangle)

\* C19 as stated: when A fully contains B and B has at most 20 % of the
\* area of A, B is absent from what the filter returns.
C19_SmallInsideLargeDropped ==
    nested_pc = "done" =>
        \A a, b \in 1..Len(nested_in) :
           SmallInsideLarge(a, b) => nested_in[b] \notin Range(nested_out)

\* C19 as amended: when A fully contains B and B, of positive area, has at
\* most 20 % of the area of A, B is not dropped on account of A: B is
\* returned exactly when it is returned for the list without A, and for the
\* list of A and B alone both are returned.
C19_SmallInsideLargeKept ==
    nested_pc = "done" =>
        \A a, b \in 1..Len(nested_in) :
           (SmallInsideLarge(a, b) /\ GetArea(nested_in[b].absolute_rectangle) > 0) =>
              /\ nested_in[b] \in Range(nested_out)
                   <=> nested_in[b] \in Range(FilterNestedElements(
                          SelectSeq(nested_in, LAMBDA el : el # nested_in[a])))
              /\ Len(nested_in) = 2 => Range(nested_out) = Range(nested_in)

\* C19, its case: the box of 100 x 100 and the box of 16 % of it inside it
\* were passed, and the filter returned both.
C19_Witness ==
    /\ nested_pc = "done"
    /\ Len(nested_in) = 2
    /\ nested_in[1].absolute_rectangle = <<0, 0, 100, 100>>
    /\ nested_in[2].absolute_rectangle = <<10, 10, 50, 50>>
    /\ Len(nested_out) = 2

\* C20: two elements with disjoint rectangles passed to the filter are both
\* in what it returns, whatever their sizes and distance.  (Stated as the
\* claim has it; the code violates it under SpecFilter.)
C20_DisjointKept ==
    (/\ nested_pc = "done"
     /\ Len(nested_in) = 2
     /\ nested_in[1].absolute_rectangle # <<>>
     /\ nested_in[2].absolute_rectangle # <<>>
     /\ Disjoint(nested_in[1].absolute_rectangle, nested_in[2].absolute_rectangle))
      => Range(nested_out) = Range(nested_in)

\* C20, a failing case: two flat boxes of 10 x 4, one pixel apart, were
\* passed and the filter returned one of them.
C20_Failing ==
    /\ nested_pc = "done"
    /\ Len(nested_in) = 2
    /\ nested_in[1].absolute_rectangle = <<0, 0, 10, 4>>
    /\ nested_in[2].absolute_rectangle = <<0, 5, 10, 9>>
    /\ Len(nested_out) = 1

\* The title of the window observe_os_state got the scan of.
RootTitle == density_in.raw_elements[1].name

\* C21 as stated: the texts are recognised whenever the title of the scanned
\* window is 'Oracle VM VirtualBox Manager'; they are never recognised for a
\* window titled 'Notepad' with 12 elements, whatever their types.
C21_OcrHeuristicAnyTypes ==
    density_pc = "done" =>
        /\ RootTitle = "Oracle VM VirtualBox Manager" => run_ocr
        /\ (RootTitle = "Notepad" /\ Len(density_in.raw_elements) = 12 + 1) => ~run_ocr

\* C21 as amended: the texts are recognised whenever the title of the
\* scanned window is 'Oracle VM VirtualBox Manager'; they are never
\* recognised for a window titled 'Notepad' with 12 elements of which at
\* least 5 count for the density: are neither windows nor panes and, in a
\* scan of the whole desktop, lie on the monitor.
C21_OcrHeuristic ==
    density_pc = "done" =>
        /\ RootTitle = "Oracle VM VirtualBox Manager" => run_ocr
        /\ (/\ RootTitle = "Notepad"
            /\ Len(density_in.raw_elements) = 12 + 1
            /\ Cardinality({i \in 1..Len(density_in.raw_elements) :
                  /\ density_in.raw_elements[i].type \notin {"Window", "Pane"}
                  /\ \/ density_in.focus_handle # None
                     \/ IsRectOnMonitor(density_in.raw_elements[i].rectangle_coords,
                                        MonitorRect)}) >= 5)
             => ~run_ocr

\* C21, its case: Notepad was scanned with 7 panes and 5 buttons, and the
\* texts are not recognised.
C21_Witness ==
    /\ density_pc = "done"
    /\ density_in.raw_elements = DensityScan("Notepad", 7, 5, 0)
    /\ ~run_ocr

\* The other case of C21: the VirtualBox window was scanned with 12
\* buttons, and the texts are recognised.
C21_WitnessForced ==
    /\ density_pc = "done"
    /\ density_in.raw_elements = DensityScan("Oracle VM VirtualBox Manager", 0, 12, 0)
    /\ run_ocr

\* The crop box of a focus rectangle clamped to the screen grab.
ClampedBox(focus_rect) ==
    <<Clamp(MonitorRect[3] - MonitorRect[1], focus_rect[1] - MonitorRect[1]),
      Clamp(MonitorRect[4] - MonitorRect[2], focus_rect[2] - MonitorRect[2]),
      Clamp(MonitorRect[3] - MonitorRect[1], focus_rect[3] - MonitorRect[1]),
      Clamp(MonitorRect[4] - MonitorRect[2], focus_rect[4] - MonitorRect[2])>>

\* A capture returned that had a focus rectangle to crop to.
CropCapture ==
    /\ cap_pc = "returned"
    /\ focus_handle # None
    /\ cap_log.focus_rect # <<>>

\* The crop box of that capture is larger than 20 pixels in both axes.
CropApplies ==
    LET box == ClampedBox(cap_log.focus_rect) IN
    box[3] - box[1] > 20 /\ box[4] - box[2] > 20

\* C22: when a capture crops to a focus rectangle, every element of the
\* snapshot has its center inside the absolute rectangle of the focus
\* window; the clamped crop box has no negative width or height; a box not
\* larger than 20 pixels in either axis leaves image and elements as they
\* were; and the offset is that of the monitor plus the top-left corner of
\* the crop box.  (Stated as the claim has it; the code violates it under
\* SpecCapture.)
C22_CropInvariant ==
    CropCapture =>
        LET box == ClampedBox(cap_log.focus_rect) IN
        /\ box[3] - box[1] >= 0
        /\ box[4] - box[2] >= 0
        /\ IF CropApplies
           THEN /\ \A i \in 1..Len(captured.elements) :
                      Inside(Center(captured.elements[i].absolute_rectangle),
                             WindowRectOf(focus_handle))
                /\ captured.img = Image("screenshot", box[3] - box[1], box[4] - box[2])
                /\ captured.offset = <<MonitorRect[1] + box[1], MonitorRect[2] + box[2]>>
           ELSE /\ captured.img = Image("screenshot", MonitorRect[3] - MonitorRect[1],
                                        MonitorRect[4] - MonitorRect[2])
                /\ captured.offset = <<MonitorRect[1], MonitorRect[2]>>
                /\ SelectSeq(captured.elements, LAMBDA el : el.type # "OCR_TEXT")
                     = DetectedElements(cap_log.answer.data, focus_handle)

\* The parts of C22 that hold of the code: the same with the rectangle the
\* capture crops to, self.focus_rect, in the place of the rectangle of the
\* focus window.
C22_CropToFocusRect ==
    CropCapture =>
        LET box == ClampedBox(cap_log.focus_rect) IN
        /\ box[3] - box[1] >= 0
        /\ box[4] - box[2] >= 0
        /\ IF CropApplies
           THEN /\ \A i \in 1..Len(captured.elements) :
                      Inside(Center(captured.elements[i].absolute_rectangle),
                             cap_log.focus_rect)
                /\ captured.img = Image("screenshot", box[3] - box[1], box[4] - box[2])
                /\ captured.offset = <<MonitorRect[1] + box[1], MonitorRect[2] + box[2]>>
           ELSE /\ captured.img = Image("screenshot", MonitorRect[3] - MonitorRect[1],
                                        MonitorRect[4] - MonitorRect[2])
                /\ captured.offset = <<MonitorRect[1], MonitorRect[2]>>
                /\ SelectSeq(captured.elements, LAMBDA el : el.type # "OCR_TEXT")
                     = DetectedElements(cap_log.answer.data, focus_handle)

\* C22, a failing case: the scan of the focused window 10 came without the
\* entry of the window itself, its first element was the image that reaches
\* out of the window, the capture cropped to the rectangle of that image
\* and kept it, its center outside the window.
C22_Failing ==
    /\ CropCapture
    /\ CropApplies
    /\ focus_handle = 10
    /\ cap_log.answer.data = <<ImageOf(10)>>
    /\ cap_log.focus_rect = ImageOf(10).rectangle_coords
    /\ \E i \in 1..Len(captured.elements) :
          /\ captured.elements[i].type = "Image"
          /\ ~Inside(Center(captured.elements[i].absolute_rectangle), WindowRectOf(10))

\* The IPC calls made so far: those that returned and the one under way.
IpcCallsMade ==
    Range(ipc_done) \cup (IF ipc_call.pc \in {"idle", "returned"} THEN {} ELSE {ipc_call})

\* The server is through with connection i.
IpcConnClosed(i) == i < ipc_srv.conn \/ ipc_srv.pc \in {"accept", "stopped"}

\* C23: every IPC exchange has its own connection with exactly one request
\* and at most one response.  A client call opens a connection, sends one
\* message, waits for one response no longer than its timeout and returns;
\* the server reads exactly one message per accepted connection and, unless
\* the connection fails, sends exactly one response, that of the verb (an
\* error for an unknown verb); it goes on accepting after a failed
\* connection, and accepts none after it has answered shutdown.
C23_OneExchangePerConnection ==
    /\ \A c \in IpcCallsMade :
          /\ c.sent <= 1
          /\ c.received <= 1
          /\ c.polled <= PollTimeout(c.verb, c.root)
          /\ Cardinality({i \in 1..Len(ipc_conns) : ipc_conns[i].call = c.id}) <= 1
          /\ c.pc = "returned" =>
                /\ c.sent = (IF c.outcome = "refused" THEN 0 ELSE 1)
                /\ c.received = (IF c.outcome = "response" THEN 1 ELSE 0)
                /\ c.outcome = "timeout" => c.polled = PollTimeout(c.verb, c.root)
                /\ Cardinality({i \in 1..Len(ipc_conns) : ipc_conns[i].call = c.id})
                     = (IF c.outcome = "refused" THEN 0 ELSE 1)
    /\ \A i \in 1..Len(ipc_conns) :
          /\ ipc_conns[i].reads <= 1
          /\ ipc_conns[i].sends <= 1
          /\ IpcConnClosed(i) =>
                /\ ipc_conns[i].reads = 1
                /\ ipc_conns[i].sends = (IF ipc_conns[i].failed THEN 0 ELSE 1)
                /\ ~ipc_conns[i].failed =>
                      ipc_conns[i].response
                        = ServerReply(ipc_conns[i].verb, ipc_conns[i].root, ipc_live)
                /\ (~ipc_conns[i].failed /\ ipc_conns[i].verb = "unknown") =>
                      ipc_conns[i].response.status = "error"
          /\ (ipc_conns[i].verb = "shutdown" /\ ipc_conns[i].sends = 1) =>
                i = Len(ipc_conns)
    /\ ipc_srv.pc = "stopped" =>
          /\ ipc_conns[Len(ipc_conns)].verb = "shutdown"
          /\ ipc_conns[Len(ipc_conns)].sends = 1
    /\ (ipc_call.pc = "connecting" /\ ipc_srv.pc = "accept") => ENABLED ServerAccept

\* C23, its case: the handling of the first connection raised, and the
\* server accepted a second one, read a verb it does not know from it and
\* answered with an error.
C23_Witness ==
    /\ Len(ipc_conns) = 2
    /\ ipc_conns[1].failed
    /\ ipc_conns[1].reads = 1
    /\ ipc_conns[2].verb = "unknown"
    /\ ipc_conns[2].sends = 1
    /\ ipc_conns[2].response = IpcResponse("error", FALSE, "Unknown command")
    /\ Len(ipc_done) = 2
    /\ ipc_done[2].received = 1

\* The other case of C23: shutdown was answered, the server has stopped and
\* the next call was refused.
C23_WitnessShutdown ==
    /\ ipc_srv.pc = "stopped"
    /\ Len(ipc_done) = 2
    /\ ipc_done[1].verb = "shutdown"
    /\ ipc_done[2].outcome = "refused"
    /\ Len(ipc_conns) = 1

\* C24: a request still being handled after its client timed out neither
\* delays nor fails a later request: every call made while the server is
\* still busy with an earlier request gets the true response within its own
\* timeout.  (Stated as the claim has it; the code violates it under
\* SpecIpc.)
C24_StuckDoesNotBlock ==
    \A k \in 1..Len(ipc_done) :
       ipc_done[k].blocked =>
          /\ ipc_done[k].outcome = "response"
          /\ ipc_done[k].value = ServerReply(ipc_done[k].verb, ipc_done[k].root, ipc_live)
          /\ ipc_done[k].waited <= PollTimeout(ipc_done[k].verb, ipc_done[k].root)

\* C24, a failing case: the scoped analyze of window 10 timed out after 2
\* seconds with the server still scanning, and the check_handle for the
\* live window 10 made right after it waited 2 seconds, twice its timeout,
\* for the server to accept it.
C24_Failing ==
    /\ ipc_live
    /\ Len(ipc_done) = 2
    /\ ipc_done[1].verb = "analyze"
    /\ ipc_done[1].root = 10
    /\ ipc_done[1].outcome = "timeout"
    /\ ipc_done[2].verb = "check_handle"
    /\ ipc_done[2].blocked
    /\ ipc_done[2].waited = 2
    /\ ipc_done[2].waited > PollTimeout("check_handle", 10)

\* The handles a liveness probe of the cycle under way can have reported as
\* existing: those of the window list at the top of the cycle, the handle
\* check_handle confirmed for the capture, and the handle a launch_app of
\* the batch found in the window list of its poll and registered.
ProbedAlive ==
    window_snapshot \cup {focus_handle} \cup {known_windows[n] : n \in LaunchNames}

\* C25: a handle taken from known_windows or the focus stack is foregrounded
\* or made the target of the capture only when a liveness probe of the same
\* cycle reported it: the handle focus_window foregrounds is one of
\* ProbedAlive, the handle the stale-handle recovery restores is in the
\* window list of the cycle, and the handle the capture is scoped to is the
\* one it probed.  (Stated as the claim has it; the code violates it under
\* Spec.)
C25_ProbedBeforeUse ==
    [][/\ (out'.cmd = "focus_window" /\ out'.fg # <<>>) => out'.fg[1] \in ProbedAlive
       /\ (pc = "cycle" /\ pc' = "capture" /\ out'.stale /\ focus_handle' # None) =>
             focus_handle' \in window_snapshot'
       /\ (pc \in {"phase", "capture"} /\ pc' \in {"consult", "dispatch"}
           /\ focus_handle' # None) =>
             focus_handle' = known_windows[active_app_name]]_vars

\* C25, a failing state: focus_window has foregrounded the handle
\* remembered for "B", which was not in the window list of this cycle and
\* which no check_handle of this cycle confirmed.
C25_Failing ==
    /\ pc = "dispatch"
    /\ out.cmd = "focus_window"
    /\ out.fg = <<known_windows["B"]>>
    /\ active_app_name = "B"
    /\ known_windows["B"] \notin ProbedAlive

(***************************************************************************)
(* C26: fatal conditions end the objective with an error event.            *)
(***************************************************************************)
\* The loop of the objective has stopped: it is in its except or finally
\* clause, or it has returned.
ObjStopped == obj_pc \in {"except", "finally", "done"}

\* C26: once the Automation Server could not be reached for a scan of the
\* desktop, or an exception was raised in the control loop, the loop of the
\* objective runs no further cycle, and it ends with an error event.
C26_FatalStops ==
    /\ obj_fatal # {} => ObjStopped
    /\ obj_fatal # {} /\ obj_pc = "done" => "error" \in obj_events

\* The server could not be reached, and the objective went on to consult
\* the planner and ended as completed, without an error event.
C26_Failing ==
    /\ obj_fatal = {"unreachable"}
    /\ obj_pc = "done"
    /\ obj_exit = "completed"
    /\ consults > 0
    /\ "error" \notin obj_events

(***************************************************************************)
(* C27: run_autonomous_loop terminates.                                    *)
(***************************************************************************)
\* How the loop of an objective can end.
ExitPaths == {"completed", "failed", "limit", "abort", "exception"}

\* The bounds of the objective and the state in which it returns.
ObjBounded ==
    /\ consults <= max_phases
    /\ step_safety <= max_steps
    /\ obj_pc = "done" =>
          /\ obj_exit \in ExitPaths
          /\ ~is_running
          /\ "disconnected" \in obj_events

\* C27: provided every external call returns, an objective that was started
\* returns; the planner is consulted at most max_phases times, a sprint
\* runs at most max_steps cycles, and when the objective returns is_running
\* is cleared and the disconnected event was emitted.
C27_Terminates ==
    /\ []ObjBounded
    /\ (obj_pc = "while") ~> (obj_pc = "done")

\* A sprint ran max_steps cycles of which every one raised an error, and
\* returns.
C27_Witness ==
    /\ obj_pc = "sprint"
    /\ step_safety = max_steps
    /\ sprint_errors
    /\ sprint_active
    /\ is_running

\* The objective returned at the limit of the phases.
C27_WitnessLimit ==
    /\ obj_pc = "done"
    /\ obj_exit = "limit"
    /\ consults = max_phases
    /\ ~is_running


(***************************************************************************)
(* C28: the retries of send_chat_message.                                  *)
(***************************************************************************)
\* The message holds 503, 429 or, in any case, overloaded.
HasTransientMarker(e) ==
    e \in { <<"5", "0", "3", " ", "b", "u", "s", "y">>,
            <<"4", "2", "9">>,
            <<"O", "v", "e", "r", "l", "o", "a", "d", "e", "d">> }

\* C28: send_chat_message makes at most max_retries + 1 attempts; every
\* error it retried was transient and left attempts, and the i-th retry was
\* waited for 2 * 2^(i-1) seconds; when it returns after an error that is
\* not transient or after its last attempt failed, it returns the FAILED
\* plan without actions.
C28_Retry ==
    /\ api_sent <= max_retries + 1
    /\ Len(api_waits) <= max_retries
    /\ \A i \in 1..Len(api_waits) :
          /\ HasTransientMarker(api_errors[i])
          /\ api_waits[i] = 2 * (2 ^ (i - 1))
    /\ api_pc = "done" =>
          /\ api_errors # <<>> /\ ~HasTransientMarker(api_errors[Len(api_errors)])
                => api_result.status = "FAILED" /\ api_result.actions = <<>>
          /\ Len(api_errors) = max_retries + 1
                => api_result.status = "FAILED" /\ api_result.actions = <<>>
          /\ Len(api_waits) = Len(api_errors) => api_result.parsed

\* With the default of 3 retries, four attempts met transient errors: the
\* waits were 2, 4 and 8 seconds and the FAILED plan is returned.
C28_Witness ==
    /\ api_pc = "done"
    /\ max_retries = 3
    /\ api_sent = 4
    /\ api_waits = <<2, 4, 8>>
    /\ api_result = FailedPlan
    /\ HasTransientMarker(api_errors[4])

\* An error that is not transient ended the call at once although retries
\* were left.
C28_WitnessFatal ==
    /\ api_pc = "done"
    /\ max_retries = 3
    /\ api_sent = 1
    /\ api_waits = <<>>
    /\ api_errors = << <<"l", "o", "a", "d">> >>
    /\ api_result = FailedPlan


(***************************************************************************)
(* C29: reset().                                                           *)
(***************************************************************************)
\* reset() ran in this step: an objective starts.
ResetRan == pc = "idle" /\ pc' = "phase"

\* C29: reset() leaves the step counter 0 and the sprint plan empty; the
\* active handle becomes the handle remembered for the active application
\* when check_handle reported that it exists, and None otherwise; the known
\* windows, the focus stack and the name of the active application are
\* unchanged.
C29_ResetFrame ==
    [][ResetRan =>
          /\ step_count' = 0
          /\ current_sprint_plan' = <<>>
          /\ focus_handle' = IF out'.probe = "exists"
                               THEN known_windows[active_app_name]
                               ELSE None
          /\ (active_app_name # NoApp /\ known_windows[active_app_name] # None)
                => out'.probe \in {"exists", "missing"}
          /\ UNCHANGED <<known_windows, focus_stack, active_app_name>>]_vars

\* reset() found the remembered window gone: the active handle is None, and
\* the name, its remembered handle and the stack are still there.
C29_Witness ==
    /\ pc = "phase"
    /\ out.probe = "missing"
    /\ focus_handle = None
    /\ active_app_name # NoApp
    /\ known_windows[active_app_name] # None
    /\ focus_stack # <<>>

\* reset() found the remembered window and made it the active handle.
C29_WitnessExists ==
    /\ pc = "phase"
    /\ out.probe = "exists"
    /\ focus_handle # None
    /\ focus_handle = known_windows[active_app_name]


(***************************************************************************)
(* C30: the order of the requests of Type.                                 *)
(***************************************************************************)
\* The kind of the element the type command names: "none" without an id.
TypeTarget == IF call.element_id = NoId THEN "none" ELSE all_elements[call.element_id]

\* The positions of the interact requests in the trace.
InteractsOf(trace) == {i \in 1..Len(trace) : trace[i].op = "interact"}

\* C30: an interact type request directly follows an interact click
\* request for the same target; for a structural element with an owning
\* window the dispatcher sends exactly the click request and then the type
\* request, which alone carries the text; for a recognised text it clicks
\* at the element and then writes the text without any interact request;
\* without an element it only writes the text.
C30_TypeOrder ==
    /\ \A i \in InteractsOf(type_trace) :
          type_trace[i].interaction_type = "type" =>
             /\ i > 1
             /\ type_trace[i - 1].op = "interact"
             /\ type_trace[i - 1].interaction_type = "click"
             /\ type_trace[i - 1].element = type_trace[i].element
    /\ type_pc = "done" /\ TypeTarget = "uia" =>
          /\ Len(type_trace) = 2
          /\ type_trace[1].op = "interact" /\ type_trace[2].op = "interact"
          /\ type_trace[1].interaction_type = "click" /\ ~type_trace[1].text
          /\ type_trace[2].interaction_type = "type" /\ type_trace[2].text
          /\ type_trace[1].element = call.element_id
          /\ type_trace[2].element = call.element_id
    /\ type_pc = "done" /\ TypeTarget = "ocr" =>
          /\ InteractsOf(type_trace) = {}
          /\ Len(type_trace) = 2
          /\ type_trace[1].op = "click" /\ type_trace[1].element = call.element_id
          /\ type_trace[2].op = "write"
    /\ type_pc = "done" /\ TypeTarget \in {"none", "absent"} =>
          /\ Len(type_trace) = 1
          /\ type_trace[1].op = "write"

\* Type on a structural element whose click request failed: the type
\* request for the same element followed it.
C30_Witness ==
    /\ type_pc = "done"
    /\ TypeTarget = "uia"
    /\ Len(type_trace) = 2
    /\ type_trace[1] = InteractRequest(call.element_id, "click", FALSE, FALSE)
    /\ type_trace[2] = InteractRequest(call.element_id, "type", TRUE, TRUE)

\* Type on a recognised text: a click at it and the text, no request.
C30_WitnessText ==
    /\ type_pc = "done"
    /\ TypeTarget = "ocr"
    /\ type_trace = <<CoordinateClick(call.element_id), DirectWrite>>

(***************************************************************************)
(* C31: the crop by the rectangle of the handle.                           *)
(***************************************************************************)
\* A capture scoped to a live window returned a screen grab in which no
\* element is owned by the window, so that the rectangle has to come from
\* get_handle_rect; the window is larger than 20 pixels in both axes.
CropByQuery ==
    /\ cap_pc = "returned"
    /\ focus_handle # None
    /\ focus_handle \in handles
    /\ cap_log.raised = ""
    /\ captured.img.kind = "screenshot"
    /\ cap_log.focus_rect = <<>>
    /\ LET box == ClampedBox(WindowRectOf(focus_handle)) IN
       box[3] - box[1] > 20 /\ box[4] - box[2] > 20

\* C31: when the capture is scoped to a focus handle, no element of the
\* scan is owned by it and check_handle gives its rectangle, the snapshot is
\* cropped to that rectangle and only the elements with their center in it
\* are kept.  (Stated as the claim has it; the code violates it under
\* SpecCapture.)
C31_CropByHandleRect ==
    CropByQuery =>
        LET box == ClampedBox(WindowRectOf(focus_handle)) IN
        /\ captured.img = Image("screenshot", box[3] - box[1], box[4] - box[2])
        /\ captured.offset = <<MonitorRect[1] + box[1], MonitorRect[2] + box[2]>>
        /\ \A i \in 1..Len(captured.elements) :
              Inside(Center(captured.elements[i].absolute_rectangle),
                     WindowRectOf(focus_handle))

\* C31, a failing case: the scan of the live window 10 gave no element, a
\* text was recognised outside the window, and the capture returned the
\* whole monitor with that text.
C31_Failing ==
    /\ CropByQuery
    /\ focus_handle = 10
    /\ cap_log.answer.data = <<>>
    /\ captured.img = Image("screenshot", MonitorRect[3] - MonitorRect[1],
                            MonitorRect[4] - MonitorRect[2])
    /\ captured.offset = <<MonitorRect[1], MonitorRect[2]>>
    /\ \E i \in 1..Len(captured.elements) :
          ~Inside(Center(captured.elements[i].absolute_rectangle), WindowRectOf(10))

(***************************************************************************)
(* C32: the suppression of texts in the fusion.                            *)
(***************************************************************************)
\* The types of structural elements that bear interaction.
InteractionBearing ==
    {"Button", "Edit", "CheckBox", "RadioButton", "ComboBox", "List", "ListItem", "MenuItem",
     "TabItem", "Hyperlink", "TreeItem", "DataItem", "HeaderItem", "Document", "Text",
     "TitleBar"}

\* The rectangle on the screen of the k-th text recognised.
TextRect(k) ==
    <<MonitorRect[1] + fuse_in.boxes[k][1], MonitorRect[2] + fuse_in.boxes[k][2],
      MonitorRect[1] + fuse_in.boxes[k][3], MonitorRect[2] + fuse_in.boxes[k][4]>>

\* The k-th text is among the elements the fusion returned.
TextKept(k) ==
    \E i \in 1..Len(fuse_out) :
       fuse_out[i].type = "OCR_TEXT" /\ fuse_out[i].absolute_rectangle = TextRect(k)

\* The center of the k-th text lies in an interaction-bearing structural
\* element of the fusion.
TextOnControl(k) ==
    \E i \in 1..Len(fuse_out) :
       /\ fuse_out[i].type \in InteractionBearing
       /\ Inside(Center(TextRect(k)), fuse_out[i].absolute_rectangle)

\* C32: when the recognition ran, a text is dropped exactly when the VM
\* heuristic did not force the recognition and the center of the text lies
\* in an interaction-bearing structural element; when the VM heuristic
\* forced it, every text is kept.
C32_TextSuppression ==
    (fuse_pc = "done" /\ RunOcr(fuse_in.raw_elements, fuse_in.focus_handle)) =>
        \A k \in 1..Len(fuse_in.boxes) :
           /\ ~TextKept(k) <=> (~ForceOcrVm(fuse_in.raw_elements) /\ TextOnControl(k))
           /\ ForceOcrVm(fuse_in.raw_elements) => TextKept(k)

\* A text on the button of a window that is no VM was dropped.
C32_Witness ==
    /\ fuse_pc = "done"
    /\ fuse_in.raw_elements = <<ButtonOf(10)>>
    /\ fuse_in.boxes = <<<<115, 112, 135, 128>>>>
    /\ ~ForceOcrVm(fuse_in.raw_elements)
    /\ TextOnControl(1)
    /\ ~TextKept(1)

\* The same text on the same button in a VirtualBox window was kept.
C32_WitnessForced ==
    /\ fuse_pc = "done"
    /\ fuse_in.raw_elements = <<WindowElement(10), ButtonOf(10)>>
    /\ fuse_in.boxes = <<<<115, 112, 135, 128>>>>
    /\ ForceOcrVm(fuse_in.raw_elements)
    /\ TextOnControl(1)
    /\ TextKept(1)

(***************************************************************************)
(* C33: a failed get_window_list and the focus state.                      *)
(***************************************************************************)
\* C33: a reconciliation whose get_window_list request failed changes
\* neither the focus stack nor the active handle nor the name of the active
\* application.  (Stated as the claim has it; the code violates it under
\* SpecFaults.)
C33_FailedListKeepsFocus ==
    [][(pc = "cycle" /\ out'.failed) =>
          UNCHANGED <<focus_stack, focus_handle, active_app_name>>]_vars

\* C33, a failing state: the request failed, the stale-handle recovery ran
\* on the empty list, popped the whole stack and cleared the focus.
C33_Failing ==
    /\ pc = "capture"
    /\ out.failed
    /\ out.stale
    /\ out.popped >= 1
    /\ focus_stack = <<>>
    /\ focus_handle = None
    /\ active_app_name = NoApp

(***************************************************************************)
(* C34: a failed check_handle and the remembered windows.                  *)
(***************************************************************************)
\* C34: a capture whose check_handle request failed for a window that is
\* still there leaves known_windows and the name of the active application
\* as they were.  (Stated as the claim has it; the code violates it under
\* SpecFaults.)
C34_FailedProbeKeepsWindow ==
    [][(pc \in {"phase", "capture"} /\ out'.failed) =>
          UNCHANGED <<known_windows, active_app_name>>]_vars

\* C34, a failing state: the request failed, and the capture forgot the
\* window on top of the focus stack and the active application.
C34_Failing ==
    /\ pc \in {"consult", "dispatch"}
    /\ out.failed
    /\ focus_stack # <<>>
    /\ known_windows[Top(focus_stack)[1]] = None
    /\ active_app_name = NoApp
    /\ focus_handle = None

(***************************************************************************)
(* C35: the launched window is a new one                                   *)
(***************************************************************************)
\* C35: the handle launch_app returns belongs to a window that was not open
\* before the launch, also when the window list request before the launch
\* failed and gave an empty list.  (Stated as the claim has it; the code
\* violates it under SpecExecFaults.)
C35_LaunchedIsNew ==
    (exec_pc = "done" /\ call.tool = "launch_app" /\ result.handle # None)
        => result.handle \notin call.existed

\* C35, the failing launch: the windows 10 and 11 were open, the request
\* before the launch failed, so that handles_before is empty, and the first
\* poll takes the old window 10 for the launched one.
C35_Failing ==
    /\ exec_pc = "done"
    /\ call.tool = "launch_app"
    /\ call.existed = {10, 11}
    /\ handles_before = {}
    /\ attempts = 1
    /\ result = Result("success", 10)

(***************************************************************************)
(* C36: a close request that fails                                         *)
(***************************************************************************)
\* C36: when the close_window request fails (error response, timeout or
\* transport error), CloseWindow leaves known_windows, focus_stack,
\* focus_handle and active_app_name unchanged, reports the failure as the
\* command's result, and the rest of the batch is still dispatched.
\* (Stated as the claim has it; the code violates it under Spec.)
C36_FailedCloseKeepsFocus ==
    [][(/\ pc = "dispatch"
        /\ out'.cmd = "close_window"
        /\ out' # out
        /\ focus_handle # None
        /\ out'.res # "success") =>
         /\ UNCHANGED <<known_windows, focus_stack, focus_handle, active_app_name>>
         /\ out'.res = "error"
         /\ pc' = "dispatch"]_vars

\* C36, the failing state: the close of the active window was answered
\* with an error, and the window's entry, the active name and the active
\* handle are gone all the same.
C36_Failing ==
    /\ pc = "dispatch"
    /\ out.cmd = "close_window"
    /\ out.res = "error"
    /\ out.close # None
    /\ focus_handle = None
    /\ active_app_name = NoApp
    /\ \A k \in AppNames : known_windows[k] = None

(***************************************************************************)
(* C37: every accepted objective is run                                    *)
(***************************************************************************)
\* C37: every /chat request answered with "started" results in a control
\* loop that runs the submitted objective: the task it created enters the
\* loop, also when two /chat requests were handled before the first task
\* set is_running.  (Stated as the claim has it; the code violates it under
\* SpecLoop.)
C37_StartedIsRun ==
    [][\A t \in Tasks :
         task_pc[t] = "created" => task_pc'[t] \in {"created", "capture_phase"}]_vars

\* C37, the failing state: two /chat requests were answered with "started"
\* before a task ran; the first task is in its loop, the second returned at
\* the guard and its objective is dropped.
C37_Failing ==
    /\ reply = "started"
    /\ is_running
    /\ flag_writer = "loop"
    /\ task_pc[1] = "capture_phase"
    /\ task_pc[2] = "returned"

(***************************************************************************)
(* C38: what the stale-handle recovery pops                                *)
(***************************************************************************)
\* C38: the stale-handle recovery never removes from focus_stack an entry
\* whose handle is in the live window set of the cycle: only entries of
\* dead windows are popped, also when the dead active handle is not the top
\* of the stack.  (Stated as the claim has it; the code violates it under
\* Spec.)
C38_LiveEntriesStay ==
    [][(pc = "cycle" /\ pc' = "capture" /\ out'.stale) =>
         \A k \in 1..Len(focus_stack) :
            focus_stack[k][2] \in window_snapshot' =>
               /\ k <= Len(focus_stack')
               /\ focus_stack'[k] = focus_stack[k]]_vars

\* C38, the failing state: window 1 is listed and window 2, launched and
\* active without an entry of its own, is gone; the recovery popped the
\* entry ("A", 1) of the live window and left the stack empty.
C38_Failing ==
    /\ pc = "capture"
    /\ out.stale
    /\ out.popped = 1
    /\ out.lost = {<<"A", 1>>}
    /\ window_snapshot = {1}
    /\ focus_stack = <<>>
    /\ focus_handle = None

(***************************************************************************)
(* C39: the capture after a restored focus                                 *)
(***************************************************************************)
\* C39: after the stale-handle recovery restored (name, handle) as active,
\* and with that window still open at the capture's probe, the capture of
\* the cycle is scoped to that handle, also when known_windows[name] holds
\* another handle or none.  (Stated as the claim has it; the code violates
\* it under SpecFocus.)
C39_RestoredIsCaptured ==
    [][(/\ pc = "capture"
        /\ out.stale
        /\ out.fg = <<focus_handle>>
        /\ pc' = "dispatch"
        /\ ~(known_windows[active_app_name] = focus_handle /\ active_app_name' = NoApp)) =>
         focus_handle' = focus_handle]_vars

\* C39, the failing state: the windows 1 and 2 are both titled "A" and were
\* tracked under that name; window 2 went, the recovery restored ("A", 1),
\* and the capture of the cycle, finding another handle than 1 under "A",
\* is not scoped to window 1, which is open.
C39_Failing ==
    /\ pc = "dispatch"
    /\ desktop = 2
    /\ out.restored = 1
    /\ window_snapshot = {1}
    /\ focus_stack = << <<"A", 1>> >>
    /\ focus_handle # 1

====
